---------------------------- MODULE Spec2Model ----------------------------
(***************************************************************************)
(* Model of the oarkflow/email dispatcher: routing (resolveProviders), the *)
(* dispatcher (sendEmail) with its dedup store and send log, the file job  *)
(* store, the workflow executor and the scheduler's job workers.           *)
(*                                                                         *)
(* Go strings are sequences of one-character strings, so that ToLower,     *)
(* TrimSpace, extractDomain and the dedup key are computed, not assumed.   *)
(* Instants and durations are whole minutes.                               *)
(***************************************************************************)
EXTENDS Integers, Sequences, FiniteSets, TLC

VARIABLES
    now,          \* the wall clock (minutes)
    sendLog,      \* send_log.jsonl: the sequence of SendLogEntry
    rcfg,         \* SpecResolve: the EmailConfig handed to resolveProviders
    rout,         \* SpecResolve: what resolveProviders returned
    rdone,        \* SpecResolve: resolveProviders has returned
    dedupCache,   \* the process's dedupCache: key -> instant it was marked
    dedupLoaded,  \* the process's dedupLoaded flag
    dedupFile,    \* send_dedup.json: key -> instant
    calls,        \* one record per call (sendEmail, store operation, workflow) that has returned
    jobsFile,     \* scheduler_store.json: the array of ScheduledEmail
    idSeq,        \* the job ids randomBoundary has handed out so far
    jobResults,   \* send_results.json: job id -> JobResult
    procs,        \* the goroutines and processes at work, each with its position
    sched,        \* the Scheduler: running, the stop channel, the WaitGroup, its caller
    heap          \* SpecValue: the maps and structs of the process, by address

\* the variables only one specification moves
resolveVars == <<rcfg, rout, rdone, heap>>
dedupVars   == <<dedupCache, dedupLoaded, dedupFile>>
storeVars   == <<jobsFile, idSeq>>
schedVars   == <<jobResults, procs, sched>>

vars == <<now, sendLog, rcfg, rout, rdone, dedupCache, dedupLoaded, dedupFile, calls,
          jobsFile, idSeq, jobResults, procs, sched, heap>>

-----------------------------------------------------------------------------
(* strings *)

UpperCase == <<"A","B","C","D","E","F","G","H","I","J","K","L","M",
               "N","O","P","Q","R","S","T","U","V","W","X","Y","Z">>
LowerCase == <<"a","b","c","d","e","f","g","h","i","j","k","l","m",
               "n","o","p","q","r","s","t","u","v","w","x","y","z">>

\* the lower-case letter of each upper-case letter
UpperToLower == [c \in {UpperCase[i] : i \in 1..Len(UpperCase)} |->
                    LowerCase[CHOOSE i \in 1..Len(UpperCase) : UpperCase[i] = c]]

ToLowerChar(c) == IF c \in DOMAIN UpperToLower THEN UpperToLower[c] ELSE c

\* strings.ToLower
ToLower(s) == [i \in 1..Len(s) |-> ToLowerChar(s[i])]

IsSpace(c) == c \in {" ", "\t", "\n", "\r"}

RECURSIVE TrimLeft(_)
TrimLeft(s) == IF s # <<>> /\ IsSpace(Head(s)) THEN TrimLeft(Tail(s)) ELSE s

RECURSIVE TrimRight(_)
TrimRight(s) ==
    IF s # <<>> /\ IsSpace(s[Len(s)]) THEN TrimRight(SubSeq(s, 1, Len(s) - 1)) ELSE s

\* strings.TrimSpace
TrimSpace(s) == TrimRight(TrimLeft(s))

\* the normalisation applied to every provider name: strings.ToLower(strings.TrimSpace(p))
NormName(p) == ToLower(TrimSpace(p))

\* strings.EqualFold(strings.TrimSpace(t), d)
EqualFoldTrim(t, d) == ToLower(TrimSpace(t)) = ToLower(d)

\* strings.LastIndex(s, c) for a one-character c, 1-based; 0 when absent
LastIndexOf(s, c) ==
    IF \E i \in 1..Len(s) : s[i] = c
    THEN CHOOSE i \in 1..Len(s) : s[i] = c /\ \A j \in (i+1)..Len(s) : s[j] # c
    ELSE 0

\* strings.Index(s, c) for a one-character c, 1-based; 0 when absent
IndexOf(s, c) ==
    IF \E i \in 1..Len(s) : s[i] = c
    THEN CHOOSE i \in 1..Len(s) : s[i] = c /\ \A j \in 1..(i-1) : s[j] # c
    ELSE 0

\* strings.Contains(s, sub)
Contains(s, sub) ==
    \E i \in 1..(Len(s) - Len(sub) + 1) : SubSeq(s, i, i + Len(sub) - 1) = sub

\* strings.Join(list, sep)
RECURSIVE Join(_, _)
Join(list, sep) ==
    IF list = <<>> THEN <<>>
    ELSE IF Len(list) = 1 THEN list[1]
    ELSE list[1] \o sep \o Join(Tail(list), sep)

Range(s) == {s[i] : i \in DOMAIN s}

\* extractDomain: the lowercased, trimmed text after the last "@", "" when there is none
extractDomain(addr) ==
    LET a   == TrimSpace(addr)
        idx == LastIndexOf(a, "@")
    IN  IF idx >= 1 /\ idx < Len(a)
        THEN ToLower(TrimSpace(SubSeq(a, idx + 1, Len(a))))
        ELSE <<>>

\* an addr-spec net/mail accepts: local@domain, one "@", no blanks or angle brackets
IsAddrSpec(a) ==
    /\ Cardinality({i \in 1..Len(a) : a[i] = "@"}) = 1
    /\ IndexOf(a, "@") > 1
    /\ IndexOf(a, "@") < Len(a)
    /\ \A i \in 1..Len(a) : ~IsSpace(a[i]) /\ a[i] \notin {"<", ">"}

\* net/mail.ParseAddress on the two shapes the configurations use, "local@domain" and
\* "Name <local@domain>": [ok, name, address]
ParseAddress(value) ==
    LET v  == TrimSpace(value)
        lt == IndexOf(v, "<")
    IN  IF IsAddrSpec(v)
        THEN [ok |-> TRUE, name |-> <<>>, address |-> v]
        ELSE IF lt >= 1 /\ v[Len(v)] = ">" /\ IsAddrSpec(SubSeq(v, lt + 1, Len(v) - 1))
        THEN [ok |-> TRUE, name |-> TrimSpace(SubSeq(v, 1, lt - 1)),
              address |-> SubSeq(v, lt + 1, Len(v) - 1)]
        ELSE [ok |-> FALSE, name |-> <<>>, address |-> <<>>]

\* splitAddress: the address part of a recipient or sender
splitAddress(value) ==
    IF TrimSpace(value) = <<>> THEN <<>>
    ELSE IF ~ParseAddress(value).ok THEN TrimSpace(value)
    ELSE ParseAddress(value).address

\* regexp.Compile + MatchString for the patterns the routes use: a pattern of literal
\* characters matches when the subject contains it; an unbalanced "(" does not compile
RegexCompiles(re) ==
    Cardinality({i \in 1..Len(re) : re[i] = "("}) = Cardinality({i \in 1..Len(re) : re[i] = ")"})

RegexMatches(re, s) == RegexCompiles(re) /\ Contains(s, re)

-----------------------------------------------------------------------------
(* provider registry and the usage oracle over the send log *)

\* time.Hour
Hour == 60

strSendgrid == <<"s","e","n","d","g","r","i","d">>
strSmtp     == <<"s","m","t","p">>
strMailgun  == <<"m","a","i","l","g","u","n">>
strAwsSes   == <<"a","w","s","_","s","e","s">>

strGmail    == <<"g","m","a","i","l">>

\* providerDefaults: Host, Cost in tenths, Capacity in sends
providerDefaults ==
    (strSendgrid :> [Host |-> <<"s","m","t","p",".","s","e","n","d","g","r","i","d",".","n","e","t">>, Cost |-> 5, Capacity |-> 1000]) @@
    (strMailgun  :> [Host |-> <<"s","m","t","p",".","m","a","i","l","g","u","n",".","o","r","g">>, Cost |-> 4, Capacity |-> 1000]) @@
    (strAwsSes   :> [Host |-> <<"e","m","a","i","l","-","s","m","t","p",".","u","s","-","e","a","s","t","-","1",".","a","m","a","z","o","n","a","w","s",".","c","o","m">>, Cost |-> 1, Capacity |-> 5000]) @@
    (strSmtp     :> [Host |-> <<"l","o","c","a","l","h","o","s","t">>, Cost |-> 0, Capacity |-> 0]) @@
    (strGmail    :> [Host |-> <<"s","m","t","p",".","g","m","a","i","l",".","c","o","m">>, Cost |-> 0, Capacity |-> 500])

\* emailDomainMap: sender domain -> provider, used by inferProvider
emailDomainMap ==
    (<<"g","m","a","i","l",".","c","o","m">> :> strGmail) @@ (<<"g","o","o","g","l","e","m","a","i","l",".","c","o","m">> :> strGmail) @@ (<<"y","a","h","o","o",".","c","o","m">> :> strSmtp)

\* the provider set built from a provider list: lowercased, trimmed names
provSet(providers) == {NormName(providers[i]) : i \in DOMAIN providers}

\* one recipient of a log entry is in one of the domains
rcptInDomains(rcpt, toDomains) ==
    /\ extractDomain(rcpt) # <<>>
    /\ \E i \in DOMAIN toDomains : EqualFoldTrim(toDomains[i], extractDomain(rcpt))

\* json.Unmarshal(line, &e) returns nil: the line is an entry and not something else
unmarshalOk(line) == "Timestamp" \in DOMAIN line

\* the per-entry filter shared by both scans of the log
entryCounts(e, providers, since, toDomains) ==
    /\ unmarshalOk(e)
    /\ e.Success
    /\ ~(e.Timestamp < since)
    /\ (Len(providers) > 0 => NormName(e.Provider) \in provSet(providers))
    /\ (Len(toDomains) > 0 => \E i \in DOMAIN e.Recipients : rcptInDomains(e.Recipients[i], toDomains))

\* mutant of countSuccessesFromReader: an entry counts once for each recipient in the
\* domains
RECURSIVE countSuccessesFromReader_perRecipient(_, _, _, _)
countSuccessesFromReader_perRecipient(lines, providers, since, toDomains) ==
    IF lines = <<>> THEN 0
    ELSE (IF entryCounts(Head(lines), providers, since, toDomains)
          THEN (IF Len(toDomains) = 0 THEN 1
                ELSE Cardinality({i \in DOMAIN Head(lines).Recipients :
                                    rcptInDomains(Head(lines).Recipients[i], toDomains)}))
          ELSE 0)
         + countSuccessesFromReader_perRecipient(Tail(lines), providers, since, toDomains)

\* countSuccessesFromReader: one pass over the lines of the log
RECURSIVE countSuccessesFromReader(_, _, _, _)
countSuccessesFromReader(lines, providers, since, toDomains) ==
    IF lines = <<>> THEN 0
    ELSE (IF entryCounts(Head(lines), providers, since, toDomains) THEN 1 ELSE 0)
         + countSuccessesFromReader(Tail(lines), providers, since, toDomains)

\* countSuccessesSince reads the persistent send log
countSuccessesSince(providers, since, toDomains) ==
    countSuccessesFromReader(sendLog, providers, since, toDomains)

RECURSIVE Pow2(_)
Pow2(k) == IF k <= 0 THEN 1 ELSE 2 * Pow2(k - 1)

\* math.Exp(-ln2 * age / halfLife) in units of 1/1024: exact when age is a multiple of
\* the half-life, interpolated linearly in between, and 0 past ten half-lives. The
\* specifications draw ages of at most four half-lives or of sixty and more, where the
\* weight is 2^-60 or less and adds less to a score than the comparator of
\* sortProvidersByUsage tells apart (1e-12)
decayWeight(age, halfLife) ==
    LET k  == age \div halfLife
        r  == age % halfLife
        lo == IF k > 10 THEN 0 ELSE 1024 \div Pow2(k)
        hi == IF k + 1 > 10 THEN 0 ELSE 1024 \div Pow2(k + 1)
    IN  lo - (((lo - hi) * r) \div halfLife)

\* weightedUsageFromReader, for one provider bucket: the sum of the decayed weights of
\* the entries that pass the filter and were sent through prov (units of 1/1024)
RECURSIVE weightedUsageFromReader(_, _, _, _, _, _)
weightedUsageFromReader(lines, prov, providers, since, toDomains, halfLife) ==
    IF lines = <<>> THEN 0
    ELSE LET e  == Head(lines)
             hl == IF halfLife <= 0 THEN 6 * Hour ELSE halfLife
         IN  (IF entryCounts(e, providers, since, toDomains) /\ NormName(e.Provider) = prov
              THEN decayWeight(now - e.Timestamp, hl) ELSE 0)
             + weightedUsageFromReader(Tail(lines), prov, providers, since, toDomains, halfLife)

\* weightedUsageSince(...)[prov]
weightedUsageSince(prov, providers, since, toDomains, halfLife) ==
    weightedUsageFromReader(sendLog, prov, providers, since, toDomains, halfLife)

-----------------------------------------------------------------------------
(* routing engine *)

\* mutant of routeMatches: a route with no condition matches every message
routeMatches_openRoute(cfg, r) ==
    IF Len(r.ToDomains) = 0 /\ Len(r.FromDomains) = 0 /\ r.SubjectRegex = <<>> THEN TRUE
    ELSE \/ /\ Len(r.ToDomains) > 0
            /\ \E i \in DOMAIN cfg.To : \E t \in DOMAIN r.ToDomains :
                   EqualFoldTrim(r.ToDomains[t], extractDomain(splitAddress(cfg.To[i])))
         \/ /\ Len(r.FromDomains) > 0
            /\ \E f \in DOMAIN r.FromDomains :
                   EqualFoldTrim(r.FromDomains[f], extractDomain(splitAddress(cfg.From)))
         \/ /\ r.SubjectRegex # <<>>
            /\ RegexMatches(r.SubjectRegex, cfg.Subject)

\* routeMatches: to-domain, from-domain or subject-regex; no condition, no match
routeMatches(cfg, r) ==
    IF Len(r.ToDomains) = 0 /\ Len(r.FromDomains) = 0 /\ r.SubjectRegex = <<>> THEN FALSE
    ELSE \/ /\ Len(r.ToDomains) > 0
            /\ \E i \in DOMAIN cfg.To : \E t \in DOMAIN r.ToDomains :
                   EqualFoldTrim(r.ToDomains[t], extractDomain(splitAddress(cfg.To[i])))
         \/ /\ Len(r.FromDomains) > 0
            /\ \E f \in DOMAIN r.FromDomains :
                   EqualFoldTrim(r.FromDomains[f], extractDomain(splitAddress(cfg.From)))
         \/ /\ r.SubjectRegex # <<>>
            /\ RegexMatches(r.SubjectRegex, cfg.Subject)

\* findFirstMatchingRoute: index of the first matching route, 0 when none (nil)
findFirstMatchingRoute(cfg) ==
    IF \E i \in DOMAIN cfg.ProviderRoutes : routeMatches(cfg, cfg.ProviderRoutes[i])
    THEN CHOOSE i \in DOMAIN cfg.ProviderRoutes :
            /\ routeMatches(cfg, cfg.ProviderRoutes[i])
            /\ \A j \in 1..(i-1) : ~routeMatches(cfg, cfg.ProviderRoutes[j])
    ELSE 0

\* the provider list a route's limits are counted over
routeLimitProviders(r) ==
    IF Len(r.ProviderPriority) = 0 /\ r.Provider # <<>> THEN <<r.Provider>> ELSE r.ProviderPriority

\* mutant of routeWithinLimits: a limit is exhausted only once it is exceeded
routeWithinLimits_strict(r) ==
    LET providers == routeLimitProviders(r)
    IN  /\ ~(r.HourlyLimit > 0
             /\ countSuccessesSince(providers, now - Hour, r.ToDomains) > r.HourlyLimit)
        /\ ~(r.DailyLimit > 0
             /\ countSuccessesSince(providers, now - 24 * Hour, r.ToDomains) > r.DailyLimit)
        /\ ~(r.WeeklyLimit > 0
             /\ countSuccessesSince(providers, now - 7 * 24 * Hour, r.ToDomains) > r.WeeklyLimit)
        /\ ~(r.MonthlyLimit > 0
             /\ countSuccessesSince(providers, now - 30 * 24 * Hour, r.ToDomains) > r.MonthlyLimit)

\* routeWithinLimits: hourly, daily, weekly, monthly, in that order
routeWithinLimits(r) ==
    LET providers == routeLimitProviders(r)
    IN  /\ ~(r.HourlyLimit > 0
             /\ countSuccessesSince(providers, now - Hour, r.ToDomains) >= r.HourlyLimit)
        /\ ~(r.DailyLimit > 0
             /\ countSuccessesSince(providers, now - 24 * Hour, r.ToDomains) >= r.DailyLimit)
        /\ ~(r.WeeklyLimit > 0
             /\ countSuccessesSince(providers, now - 7 * 24 * Hour, r.ToDomains) >= r.WeeklyLimit)
        /\ ~(r.MonthlyLimit > 0
             /\ countSuccessesSince(providers, now - 30 * 24 * Hour, r.ToDomains) >= r.MonthlyLimit)

\* normalizeProviderList's loop over the list: lowercase, trim, drop blanks and repeats
RECURSIVE normalizeLoop(_, _)
normalizeLoop(list, out) ==
    IF list = <<>> THEN out
    ELSE LET s == NormName(Head(list))
         IN  IF s = <<>> \/ s \in Range(out)
             THEN normalizeLoop(Tail(list), out)
             ELSE normalizeLoop(Tail(list), Append(out, s))

\* mutant of normalizeProviderList: the fallback is appended without looking at `seen`
normalizeProviderList_appendAlways(list, fallback) ==
    LET out  == normalizeLoop(list, <<>>)
        s    == NormName(fallback)
    IN  IF fallback # <<>> /\ s # <<>> THEN Append(out, s)
        ELSE IF Len(out) = 0 THEN <<fallback>>
        ELSE out

\* normalizeProviderList: the normalised list, the fallback appended when it is new
normalizeProviderList(list, fallback) ==
    LET out  == normalizeLoop(list, <<>>)
        s    == NormName(fallback)
        out2 == IF fallback # <<>> /\ s # <<>> /\ s \notin Range(out) THEN Append(out, s) ELSE out
    IN  IF Len(out2) = 0
        THEN (IF fallback # <<>> THEN <<NormName(fallback)>> ELSE <<fallback>>)
        ELSE out2

\* a map lookup that reports a missing key as 0
MapGet(m, k) == IF k \in DOMAIN m THEN m[k] ELSE 0

\* the score of providers[i] in units of 1e-8: (usage * weight * cost) / cap + 1e-6 * cost;
\* weights and costs are in tenths
providerScore(providers, i, toDomains, window, weights, half, overrideCapacities, overrideCosts) ==
    LET p     == NormName(providers[i])
        s     == weightedUsageSince(p, providers, now - window, toDomains, half)
        w     == IF MapGet(weights, p) > 0 THEN weights[p] ELSE 10
        cost0 == IF MapGet(overrideCosts, p) > 0 THEN overrideCosts[p] ELSE 10
        cap0  == IF MapGet(overrideCapacities, p) > 0 THEN overrideCapacities[p] ELSE 0
        cost  == IF p \in DOMAIN providerDefaults /\ providerDefaults[p].Cost > 0 /\ cost0 = 10
                 THEN providerDefaults[p].Cost ELSE cost0
        cap   == IF p \in DOMAIN providerDefaults /\ cap0 = 0
                 THEN providerDefaults[p].Capacity ELSE cap0
        capF  == IF cap > 0 THEN cap ELSE 1
    IN  ((((s * w * cost) \div 16) * 15625) \div capF) + 10 * cost

\* the comparator handed to sort.Slice: lower score, then lower default cost, then
\* higher default capacity, then input order. Scores less than 1e-12 apart are a tie:
\* here, scores that are equal in their units
scoreLess(providers, scores, i, j) ==
    LET pi == NormName(providers[i])
        pj == NormName(providers[j])
        ci == IF pi \in DOMAIN providerDefaults /\ providerDefaults[pi].Cost > 0
              THEN providerDefaults[pi].Cost ELSE 10
        cj == IF pj \in DOMAIN providerDefaults /\ providerDefaults[pj].Cost > 0
              THEN providerDefaults[pj].Cost ELSE 10
        capI == IF pi \in DOMAIN providerDefaults THEN providerDefaults[pi].Capacity ELSE 0
        capJ == IF pj \in DOMAIN providerDefaults THEN providerDefaults[pj].Capacity ELSE 0
    IN  IF scores[i] = scores[j]
        THEN IF ci # cj THEN ci < cj
             ELSE IF capI # capJ THEN capI > capJ
             ELSE i < j
        ELSE scores[i] < scores[j]

\* the indices left, least first
RECURSIVE sortedIndices(_, _, _)
sortedIndices(providers, scores, left) ==
    IF left = {} THEN <<>>
    ELSE LET m == CHOOSE x \in left : \A y \in left \ {x} : scoreLess(providers, scores, x, y)
         IN  <<m>> \o sortedIndices(providers, scores, left \ {m})

\* sortProvidersByUsage: ascending score over the lookback window (default 24 h), the
\* half-life defaulting to window/4 and at least one hour
sortProvidersByUsage(providers, toDomains, window, weights, recencyHalfLife, overrideCapacities, overrideCosts) ==
    LET win    == IF window <= 0 THEN 24 * Hour ELSE window
        half   == IF recencyHalfLife > 0 THEN recencyHalfLife
                  ELSE IF win \div 4 < Hour THEN Hour ELSE win \div 4
        scores == [i \in DOMAIN providers |->
                      providerScore(providers, i, toDomains, win, weights, half,
                                    overrideCapacities, overrideCosts)]
        order  == sortedIndices(providers, scores, DOMAIN providers)
    IN  [k \in DOMAIN providers |-> providers[order[k]]]

\* a route carries selection metadata
routeHasSelectionMeta(r) ==
    \/ DOMAIN r.ProviderWeights # {}
    \/ DOMAIN r.ProviderCapacities # {}
    \/ DOMAIN r.ProviderCostOverrides # {}
    \/ r.SelectionWindow > 0
    \/ r.RecencyHalfLife > 0

\* the candidate list a route contributes
routeList(r) ==
    IF Len(r.ProviderPriority) > 0 THEN r.ProviderPriority
    ELSE IF r.Provider # <<>> THEN <<r.Provider>>
    ELSE <<>>

NoMap == <<>>

\* mutant of resolveFromRoutes: the loop does not stop at the first usable route, the
\* last one decides
RECURSIVE resolveFromRoutes_lastWins(_, _)
resolveFromRoutes_lastWins(cfg, i) ==
    IF i > Len(cfg.ProviderRoutes) THEN normalizeProviderList(<<>>, cfg.Provider)
    ELSE LET r == cfg.ProviderRoutes[i]
         IN  IF /\ routeMatches(cfg, r) /\ routeWithinLimits(r)
                /\ \A j \in (i + 1)..Len(cfg.ProviderRoutes) :
                       ~(routeMatches(cfg, cfg.ProviderRoutes[j]) /\ routeWithinLimits(cfg.ProviderRoutes[j]))
             THEN IF Len(routeList(r)) > 1
                  THEN normalizeProviderList(
                           sortProvidersByUsage(routeList(r), r.ToDomains, r.SelectionWindow,
                               r.ProviderWeights, r.RecencyHalfLife, r.ProviderCapacities,
                               r.ProviderCostOverrides),
                           cfg.Provider)
                  ELSE normalizeProviderList(routeList(r), cfg.Provider)
             ELSE resolveFromRoutes_lastWins(cfg, i + 1)

\* the route loop of resolveProviders from route i on
RECURSIVE resolveFromRoutes(_, _)
resolveFromRoutes(cfg, i) ==
    IF i > Len(cfg.ProviderRoutes) THEN normalizeProviderList(<<>>, cfg.Provider)
    ELSE LET r == cfg.ProviderRoutes[i]
         IN  IF routeMatches(cfg, r)
             THEN IF ~routeWithinLimits(r) THEN resolveFromRoutes(cfg, i + 1)
                  ELSE IF Len(routeList(r)) > 1
                       THEN normalizeProviderList(
                                sortProvidersByUsage(routeList(r), r.ToDomains, r.SelectionWindow,
                                    r.ProviderWeights, r.RecencyHalfLife, r.ProviderCapacities,
                                    r.ProviderCostOverrides),
                                cfg.Provider)
                       ELSE normalizeProviderList(routeList(r), cfg.Provider)
             ELSE resolveFromRoutes(cfg, i + 1)

\* mutant of resolveProviders: a matching route takes precedence over the explicit priority
resolveProviders_routesFirst(cfg) ==
    IF Len(cfg.ProviderPriority) > 0 /\ findFirstMatchingRoute(cfg) = 0
    THEN normalizeProviderList(cfg.ProviderPriority, cfg.Provider)
    ELSE resolveFromRoutes(cfg, 1)

\* resolveProviders: explicit priority, else the first usable matching route, else the
\* configured provider
resolveProviders(cfg) ==
    IF Len(cfg.ProviderPriority) > 0
    THEN LET ri == findFirstMatchingRoute(cfg)
         IN  IF ri # 0 /\ routeHasSelectionMeta(cfg.ProviderRoutes[ri])
             THEN LET r == cfg.ProviderRoutes[ri]
                  IN  IF Len(cfg.ProviderPriority) > 1
                      THEN normalizeProviderList(
                               sortProvidersByUsage(cfg.ProviderPriority, r.ToDomains,
                                   r.SelectionWindow, r.ProviderWeights, r.RecencyHalfLife,
                                   r.ProviderCapacities, r.ProviderCostOverrides),
                               cfg.Provider)
                      ELSE normalizeProviderList(cfg.ProviderPriority, cfg.Provider)
             ELSE IF Len(cfg.ProviderPriority) > 1
                  THEN normalizeProviderList(
                           sortProvidersByUsage(cfg.ProviderPriority, <<>>, 0, NoMap, 0, NoMap, NoMap),
                           cfg.Provider)
                  ELSE normalizeProviderList(cfg.ProviderPriority, cfg.Provider)
    ELSE resolveFromRoutes(cfg, 1)

-----------------------------------------------------------------------------
(* the configurations, routes and log entries the specifications draw from *)

strEmpty      == <<>>
strBlank      == <<" ">>
strSendGridMx == <<"S","e","n","d","G","r","i","d">>
addrGmail     == <<"u","@","g","m","a","i","l",".","c","o","m">>
addrGmailName == <<"U"," ","<","u","@","g","m","a","i","l",".","c","o","m",">">>
addrOther     == <<"u","@","e","x",".","o","r","g">>
addrFrom      == <<"A","c","m","e"," ","<","n","o","@","a","c","m","e",".","i","o",">">>
domGmail      == <<"g","m","a","i","l",".","c","o","m">>
domGmailMx    == <<"G","m","a","i","l",".","c","o","m">>
domAcme       == <<"a","c","m","e",".","i","o">>
subjWelcome   == <<"W","e","l","c","o","m","e","!">>
reWelcome     == <<"W","e","l","c","o","m","e">>
reBroken      == <<"(","W">>

\* the zero ProviderRoute
Route0 ==
    [ToDomains |-> <<>>, FromDomains |-> <<>>, SubjectRegex |-> <<>>,
     ProviderPriority |-> <<>>, Provider |-> <<>>,
     HourlyLimit |-> 0, DailyLimit |-> 0, WeeklyLimit |-> 0, MonthlyLimit |-> 0,
     SelectionWindow |-> 0, RecencyHalfLife |-> 0,
     ProviderWeights |-> NoMap, ProviderCapacities |-> NoMap, ProviderCostOverrides |-> NoMap]

\* gmail.com -> sendgrid, one send per hour
routeToHourly ==
    [Route0 EXCEPT !.ToDomains = <<domGmail>>, !.ProviderPriority = <<strSendgrid>>,
                   !.HourlyLimit = 1]
\* Gmail.com -> sendgrid or smtp over a one-hour selection window, two sends per day
routeToDaily ==
    [Route0 EXCEPT !.ToDomains = <<domGmailMx>>, !.ProviderPriority = <<strSendGridMx, strSmtp>>,
                   !.DailyLimit = 2, !.SelectionWindow = Hour]
\* subject Welcome -> mailgun, one send per week to anybody
routeSubjWeekly ==
    [Route0 EXCEPT !.SubjectRegex = reWelcome, !.Provider = strMailgun, !.WeeklyLimit = 1]
\* sender acme.io -> no provider of its own, one send per month through any provider
routeFromMonthly ==
    [Route0 EXCEPT !.FromDomains = <<domAcme>>, !.MonthlyLimit = 1]
\* a route with no condition
routeNoCond == [Route0 EXCEPT !.ProviderPriority = <<strAwsSes>>]
\* a route whose regex does not compile
routeBadRegex == [Route0 EXCEPT !.SubjectRegex = reBroken, !.Provider = strAwsSes]

RouteLists ==
    { <<>>, <<routeToHourly>>, <<routeToDaily>>, <<routeFromMonthly>>,
      <<routeToHourly, routeSubjWeekly>>, <<routeNoCond, routeToDaily>>,
      <<routeBadRegex, routeSubjWeekly>>, <<routeSubjWeekly, routeToHourly>> }

PriorityLists ==
    { <<>>, <<strSendGridMx>>, <<strBlank>>, <<strSmtp>>,
      <<strSmtp, strSendGridMx>>, <<strSendgrid, strBlank, strSendGridMx>> }

\* cfg.Provider after parseConfig: lowercased and trimmed, possibly empty
ConfigProviders == {strEmpty, strSmtp, strSendgrid}

RecipientLists == { <<addrGmailName>>, <<addrOther, addrGmail>>, <<addrOther>> }

\* the instant the specifications start at
Epoch == 33 * 24 * Hour

LogEntry(age, provider, success, recipients) ==
    [Timestamp |-> Epoch - age, JobID |-> <<>>, Step |-> <<>>, Attempt |-> 1,
     Provider |-> provider, Success |-> success, Recipients |-> recipients]

LogEntrySet ==
    { LogEntry(0, strSendgrid, TRUE, <<addrGmail>>),
      LogEntry(Hour, strSendgrid, TRUE, <<addrOther, addrGmail>>),
      LogEntry(2 * Hour, strSendgrid, TRUE, <<addrGmail>>),
      LogEntry(0, strSendgrid, FALSE, <<addrGmail>>),
      LogEntry(0, strSmtp, TRUE, <<addrGmailName>>),
      LogEntry(200 * Hour, strMailgun, TRUE, <<addrOther>>) }

\* the longest send log the routing specification starts from
MaxLog == 2

SeqsUpTo(S, n) == UNION {[1..k -> S] : k \in 0..n}

strOnce   == <<"o","n","c","e">>
strRepeat == <<"r","e","p","e","a","t">>

\* the fields of EmailConfig the core reads
Config0 ==
    [From |-> addrFrom, To |-> <<addrGmail>>, Subject |-> subjWelcome,
     Body |-> <<>>, TextBody |-> <<>>, HTMLBody |-> <<>>, RawSubject |-> <<>>, RawBody |-> <<>>,
     Provider |-> strSmtp, ProviderPriority |-> <<>>, ProviderRoutes |-> <<>>,
     Host |-> <<>>, RetryCount |-> 0, ScheduleMode |-> strRepeat, DryRun |-> FALSE,
     AdditionalData |-> NoMap]

\* the state of the variables a specification does not use
ResolveIdle == rcfg = Config0 /\ rout = <<>> /\ rdone = FALSE /\ heap = <<>>
DedupIdle == dedupCache = NoMap /\ dedupLoaded = FALSE /\ dedupFile = NoMap
SendIdle  == calls = <<>>
StoreIdle == jobsFile = <<>> /\ idSeq = 0
\* NewScheduler: not running, the stop channel open, nothing to wait for. loops counts
\* the ticker loops started; ctl is where the caller of Start and Stop is and last what
\* its last call came to; stopTicks and stopLoops are the ticks and the loops there were
\* when Stop last returned
NewScheduler ==
    [running |-> FALSE, closed |-> FALSE, wg |-> 0, loops |-> 0, ctl |-> "idle", last |-> "",
     stopTicks |-> 0, stopLoops |-> 0]

\* the scheduler after Start, its ticker loop running
StartedScheduler == [NewScheduler EXCEPT !.running = TRUE, !.wg = 1, !.loops = 1]

SchedIdle == jobResults = NoMap /\ procs = {} /\ sched = NewScheduler

\* the worker process: a started scheduler, no results, no goroutine yet
SchedStarted == jobResults = NoMap /\ procs = {} /\ sched = StartedScheduler

-----------------------------------------------------------------------------
(* SpecResolve: resolveProviders applied to drawn configurations and logs *)

InitResolve ==
    /\ now = Epoch
    /\ sendLog \in SeqsUpTo(LogEntrySet, MaxLog)
    /\ \E to \in RecipientLists, prov \in ConfigProviders, pp \in PriorityLists, rl \in RouteLists :
          rcfg = [Config0 EXCEPT !.To = to, !.Provider = prov, !.ProviderPriority = pp,
                                 !.ProviderRoutes = rl]
    /\ rout = <<>>
    /\ rdone = FALSE
    /\ heap = <<>>
    /\ DedupIdle /\ SendIdle /\ StoreIdle /\ SchedIdle

ResolveCall ==
    /\ ~rdone
    /\ rout' = resolveProviders(rcfg)
    /\ rdone' = TRUE
    /\ UNCHANGED <<now, sendLog, rcfg, heap, dedupVars, calls, storeVars, schedVars>>

NextResolve == ResolveCall

SpecResolve == InitResolve /\ [][NextResolve]_vars

-----------------------------------------------------------------------------
(* claims about the routing engine, checked under SpecResolve *)

NoDuplicates(s) == \A i, j \in DOMAIN s : i # j => s[i] # s[j]

\* C4 as stated: Resolve(M) is non-empty, has no duplicate, and M.Provider (lowercased,
\* trimmed) is its last element unless it occurs earlier in the list.
C4_Original ==
    rdone =>
        /\ Len(rout) >= 1
        /\ NoDuplicates(rout)
        /\ \/ rout[Len(rout)] = NormName(rcfg.Provider)
           \/ \E i \in 1..(Len(rout) - 1) : rout[i] = NormName(rcfg.Provider)

\* C4: Resolve(M) is non-empty and has no duplicate; a non-empty M.Provider (lowercased,
\* trimmed) is its last element unless it occurs earlier in the list. An empty M.Provider
\* is appended only when there is no other candidate.
C4_ResolveShape ==
    rdone =>
        /\ Len(rout) >= 1
        /\ NoDuplicates(rout)
        /\ NormName(rcfg.Provider) # <<>> =>
              \/ rout[Len(rout)] = NormName(rcfg.Provider)
              \/ \E i \in 1..(Len(rout) - 1) : rout[i] = NormName(rcfg.Provider)
        /\ NormName(rcfg.Provider) = <<>> /\ <<>> \in Range(rout) => rout = << <<>> >>

\* C4 witness: a result of two names in which M.Provider comes first, not last
C4_Witness ==
    /\ rdone
    /\ Len(rout) = 2
    /\ rcfg.Provider # <<>>
    /\ rout[1] = NormName(rcfg.Provider)
    /\ rout[2] # NormName(rcfg.Provider)

\* C5 as stated: with ProviderPriority = [p1], Resolve(M) begins with p1.
C5_Original ==
    rdone /\ Len(rcfg.ProviderPriority) = 1 => rout[1] = rcfg.ProviderPriority[1]

\* C5: with ProviderPriority = [p1] and p1 not blank, Resolve(M) begins with p1
\* lowercased and trimmed, whatever the routes, their limits and the send log.
C5_SinglePriorityFirst ==
    rdone /\ Len(rcfg.ProviderPriority) = 1 /\ NormName(rcfg.ProviderPriority[1]) # <<>>
        => rout[1] = NormName(rcfg.ProviderPriority[1])

\* C5 witness: a single priority entry wins over a matching route that names another
\* provider, while the send log is not empty
C5_Witness ==
    /\ rdone
    /\ rcfg.ProviderPriority = <<strSendGridMx>>
    /\ rcfg.ProviderRoutes = <<routeSubjWeekly, routeToHourly>>
    /\ Len(sendLog) = 2
    /\ rout[1] = strSendgrid

\* the recipients of a log entry reach one of the route's to-domains (the text after "@")
EntryInToDomains(e, r) ==
    \E i \in DOMAIN e.Recipients : \E t \in DOMAIN r.ToDomains :
        /\ extractDomain(e.Recipients[i]) # <<>>
        /\ ToLower(TrimSpace(r.ToDomains[t])) = extractDomain(e.Recipients[i])

\* the successful entries of the last `window` minutes through the route's providers (any
\* provider when the route names none) to the route's to-domains (any when it names none)
LimitHits(r, window) ==
    Cardinality({ i \in DOMAIN sendLog :
        /\ sendLog[i].Success
        /\ sendLog[i].Timestamp >= now - window
        /\ \/ routeLimitProviders(r) = <<>>
           \/ \E k \in DOMAIN routeLimitProviders(r) :
                 NormName(routeLimitProviders(r)[k]) = NormName(sendLog[i].Provider)
        /\ (r.ToDomains = <<>> \/ EntryInToDomains(sendLog[i], r)) })

\* some limit K > 0 of the route has K or more such entries inside its window
RouteExhausted(r) ==
    \/ r.HourlyLimit > 0 /\ LimitHits(r, Hour) >= r.HourlyLimit
    \/ r.DailyLimit > 0 /\ LimitHits(r, 24 * Hour) >= r.DailyLimit
    \/ r.WeeklyLimit > 0 /\ LimitHits(r, 7 * 24 * Hour) >= r.WeeklyLimit
    \/ r.MonthlyLimit > 0 /\ LimitHits(r, 30 * 24 * Hour) >= r.MonthlyLimit

RECURSIVE DropExhausted(_)
DropExhausted(routes) ==
    IF routes = <<>> THEN <<>>
    ELSE IF RouteExhausted(Head(routes)) THEN DropExhausted(Tail(routes))
    ELSE <<Head(routes)>> \o DropExhausted(Tail(routes))

\* a matching route is exhausted and no route both matches and has room left
OnlyExhaustedRoutesMatch(cfg) ==
    /\ \E i \in DOMAIN cfg.ProviderRoutes :
          routeMatches(cfg, cfg.ProviderRoutes[i]) /\ RouteExhausted(cfg.ProviderRoutes[i])
    /\ \A i \in DOMAIN cfg.ProviderRoutes :
          routeMatches(cfg, cfg.ProviderRoutes[i]) => RouteExhausted(cfg.ProviderRoutes[i])

\* C6 as stated: a route whose limit K is reached is skipped, and when no other route
\* applies Resolve returns exactly [M.Provider].
C6_Original ==
    rdone /\ OnlyExhaustedRoutesMatch(rcfg) => rout = <<rcfg.Provider>>

\* C6: for a message without explicit ProviderPriority, a route whose limit K > 0 is
\* reached inside the limit's window is skipped: Resolve answers as if the route were not
\* configured, and when no other route applies it returns exactly [M.Provider].
C6_RateLimitSkip ==
    rdone /\ rcfg.ProviderPriority = <<>> =>
        /\ rout = resolveProviders([rcfg EXCEPT !.ProviderRoutes = DropExhausted(@)])
        /\ OnlyExhaustedRoutesMatch(rcfg) => rout = <<rcfg.Provider>>

\* C6 witness: the daily limit of 2 is reached by two sends inside 24 h, one of them
\* exactly one hour old, and the route is skipped
C6_Witness ==
    /\ rdone
    /\ rcfg.ProviderPriority = <<>>
    /\ rcfg.ProviderRoutes = <<routeNoCond, routeToDaily>>
    /\ LimitHits(routeToDaily, 24 * Hour) = 2
    /\ LimitHits(routeToDaily, Hour) = 2
    /\ rcfg.Provider = strSendgrid
    /\ rout = <<strSendgrid>>

-----------------------------------------------------------------------------
(* placeholders and bodies: prepareSendConfig *)

\* a JSON value held in AdditionalData or in a job's metadata
JStr(s)  == [t |-> "string", v |-> s]
JBool(b) == [t |-> "bool", v |-> b]
JNum(n)  == [t |-> "number", v |-> n]

DigitChars == <<"0","1","2","3","4","5","6","7","8","9">>

\* fmt.Sprintf("%d", n) for n >= 0
RECURSIVE Digits(_)
Digits(n) ==
    IF n < 10 THEN <<DigitChars[n + 1]>>
    ELSE Digits(n \div 10) \o <<DigitChars[(n % 10) + 1]>>

\* fmt.Sprint of a JSON value
Sprint(x) ==
    IF x.t = "string" THEN x.v
    ELSE IF x.t = "bool" THEN (IF x.v THEN <<"t","r","u","e">> ELSE <<"f","a","l","s","e">>)
    ELSE Digits(x.v)

\* strings.Index(s, sub), 1-based; 0 when absent
IndexOfSub(s, sub) ==
    IF Contains(s, sub)
    THEN CHOOSE i \in 1..(Len(s) - Len(sub) + 1) :
            /\ SubSeq(s, i, i + Len(sub) - 1) = sub
            /\ \A j \in 1..(i-1) : SubSeq(s, j, j + Len(sub) - 1) # sub
    ELSE 0

\* normalizePlaceholderKey on keys of letters, digits and single underscores
normalizePlaceholderKey(key) == ToLower(TrimSpace(key))

strTimestamp == <<"t","i","m","e","s","t","a","m","p">>

\* buildPlaceholderValues: the clock (`timestamp`) and the flattened AdditionalData; a
\* built-in key is not overwritten, a blank value is not registered
buildPlaceholderValues(cfg, t) ==
    LET ad   == cfg.AdditionalData
        keys == {k \in DOMAIN ad : TrimSpace(Sprint(ad[k])) # <<>>}
    IN  [k \in {strTimestamp} \cup {normalizePlaceholderKey(x) : x \in keys} |->
            IF k = strTimestamp THEN Digits(t)
            ELSE TrimSpace(Sprint(ad[CHOOSE x \in keys : normalizePlaceholderKey(x) = k]))]

\* a character of placeholderPattern's key class [a-zA-Z0-9_.-]
IsKeyChar(c) ==
    \/ c \in Range(UpperCase) \/ c \in Range(LowerCase) \/ c \in Range(DigitChars)
    \/ c \in {"_", ".", "-"}

\* expandString: every {{ key }} replaced by its value, or dropped and reported missing;
\* [out, missing]
RECURSIVE expandString(_, _)
expandString(input, values) ==
    LET o == IndexOfSub(input, <<"{","{">>)
    IN  IF o = 0 THEN [out |-> input, missing |-> {}]
        ELSE LET rest == SubSeq(input, o + 2, Len(input))
                 c    == IndexOfSub(rest, <<"}","}">>)
                 raw  == TrimSpace(SubSeq(rest, 1, c - 1))
                 key  == ToLower(raw)
                 tl   == expandString(SubSeq(rest, c + 2, Len(rest)), values)
                 pre  == SubSeq(input, 1, o - 1)
             IN  IF c = 0 THEN [out |-> input, missing |-> {}]
                 ELSE IF raw = <<>> \/ \E i \in DOMAIN raw : ~IsKeyChar(raw[i])
                 THEN [out |-> SubSeq(input, 1, o + 1 + c + 1) \o tl.out, missing |-> tl.missing]
                 ELSE IF key \in DOMAIN values
                 THEN [out |-> pre \o values[key] \o tl.out, missing |-> tl.missing]
                 ELSE [out |-> pre \o tl.out, missing |-> tl.missing \cup {key}]

\* expandObjectMap over AdditionalData: the string values are expanded
expandObjectMap(ad, values) ==
    [k \in DOMAIN ad |-> IF ad[k].t = "string" THEN JStr(expandString(ad[k].v, values).out)
                         ELSE ad[k]]

\* one pass of applyPlaceholders in post-finalize mode: subject and bodies
placeholderPass(cfg, t) ==
    LET values == buildPlaceholderValues(cfg, t)
        s == expandString(cfg.Subject, values)
        b == expandString(cfg.Body, values)
        x == expandString(cfg.TextBody, values)
        h == expandString(cfg.HTMLBody, values)
    IN  [missing |-> s.missing \cup b.missing \cup x.missing \cup h.missing,
         cfg |-> [cfg EXCEPT !.Subject = s.out, !.Body = b.out, !.TextBody = x.out,
                             !.HTMLBody = h.out]]

\* the keys applyPlaceholders misses in the strings of AdditionalData
additionalDataMissing(cfg, values) ==
    UNION {expandString(cfg.AdditionalData[k].v, values).missing :
              k \in {x \in DOMAIN cfg.AdditionalData : cfg.AdditionalData[x].t = "string"}}

\* applyPlaceholders after its first pass returned p1: the second pass, and the error
\* of the first missing key
placeholderPasses(cfg, adMiss, p1, t) ==
    IF adMiss # {} \/ p1.missing # {} \/ placeholderPass(p1.cfg, t).missing # {}
    THEN [ok |-> FALSE, cfg |-> cfg]
    ELSE [ok |-> TRUE, cfg |-> placeholderPass(p1.cfg, t).cfg]

\* applyPlaceholders with the values of buildPlaceholderValues
applyValues(cfg, values, t) ==
    placeholderPasses(cfg, additionalDataMissing(cfg, values),
                      placeholderPass([cfg EXCEPT !.AdditionalData = expandObjectMap(@, values)], t),
                      t)

\* applyPlaceholders(cfg, placeholderModePostFinalize) at instant t: [ok, cfg]
applyPlaceholders(cfg, t) == applyValues(cfg, buildPlaceholderValues(cfg, t), t)

\* restoreRawContent: the raw subject and body, when captured, replace the rendered ones
restoreRawContent(cfg) ==
    [cfg EXCEPT !.Subject = IF cfg.RawSubject # <<>> THEN cfg.RawSubject ELSE @,
                !.Body    = IF cfg.RawBody # <<>> THEN cfg.RawBody ELSE @]

looksLikeHTML(body) ==
    LET b == TrimSpace(body) IN b # <<>> /\ b[1] = "<" /\ Contains(b, <<">">>)

\* resolveBodies: the text and html bodies derived from the three body fields
resolveBodies(cfg) ==
    LET text0 == TrimSpace(cfg.TextBody)
        html0 == TrimSpace(cfg.HTMLBody)
        base  == TrimSpace(cfg.Body)
        html  == IF html0 = <<>> /\ looksLikeHTML(base) THEN base ELSE html0
        text1 == IF text0 = <<>>
                 THEN (IF html = <<>> THEN base
                       ELSE IF base # <<>> /\ ~looksLikeHTML(base) THEN base ELSE text0)
                 ELSE text0
        text  == IF text1 = <<>> /\ html = <<>> THEN <<"(","e","m","p","t","y"," ","m","e","s","s","a","g","e",")">> ELSE text1
    IN  [cfg EXCEPT !.TextBody = text, !.HTMLBody = html]

\* prepareSendConfig after applyPlaceholders returned p
prepareResolved(cfg, p) ==
    IF ~p.ok THEN [ok |-> FALSE, cfg |-> cfg]
    ELSE [ok |-> TRUE, cfg |-> resolveBodies(p.cfg)]

\* prepareSendConfig at instant t: [ok, cfg]
prepareSendConfig(cfg, t) == prepareResolved(cfg, applyPlaceholders(restoreRawContent(cfg), t))

-----------------------------------------------------------------------------
(* the dedup store *)

\* the map the process holds once loadDedupLocked has run
loadDedupLocked == IF dedupLoaded THEN dedupCache ELSE dedupFile

\* mutant of dedupKeyExists: the store file is never loaded
dedupKeyExists_noLoad(key) == key # <<>> /\ key \in DOMAIN dedupCache

\* dedupKeyExists: false for the empty key, else membership after the lazy load
dedupKeyExists(key) == key # <<>> /\ key \in DOMAIN loadDedupLocked

\* mutant of markDedupKey: the key is not put into the map
markDedupKey_noop(key, t) == loadDedupLocked

\* markDedupKey: the map after dedupCache[key] = time.Now(); writeDedupLocked writes it out
markDedupKey(key, t) == (key :> t) @@ loadDedupLocked

-----------------------------------------------------------------------------
(* the dispatcher: dedupKeyFromConfig, finalizeConfig, sendEmail *)

\* a nil *SendContext
NilCtx ==
    [isNil |-> TRUE, JobID |-> <<>>, Step |-> <<>>, StepIndex |-> 0, PrevJobID |-> <<>>,
     RequireLastSuccess |-> FALSE, SkipAhead |-> FALSE]

\* sha256Hex: a collision-free digest
sha256Hex(s) == <<"sha256">> \o s

strStep == <<"s","t","e","p">>

\* dedupKeyFromConfig: "" for mode "" or "repeat", else the four parts of
\* recipients|step|sha256(subject)|sha256(bodies)
dedupKeyFromConfig(cfg, ctx) ==
    LET mode == ToLower(TrimSpace(cfg.ScheduleMode))
        ad   == cfg.AdditionalData
        step == IF ~ctx.isNil /\ TrimSpace(ctx.Step) # <<>> THEN TrimSpace(ctx.Step)
                ELSE IF strStep \in DOMAIN ad /\ ad[strStep].t = "string"
                     THEN TrimSpace(ad[strStep].v)
                ELSE <<>>
    IN  IF mode = <<>> \/ mode = strRepeat THEN <<>>
        ELSE << ToLower(Join(cfg.To, <<",">>)),
                ToLower(step),
                sha256Hex(ToLower(TrimSpace(cfg.Subject))),
                sha256Hex(ToLower(TrimSpace(cfg.Body \o cfg.TextBody \o cfg.HTMLBody))) >>

\* inferProvider(cfg.From): the provider of the sender's domain, "" when unknown
inferProvider(from) ==
    LET email == splitAddress(from)
        at    == IndexOf(email, "@")
        dom   == ToLower(TrimSpace(SubSeq(email, at + 1, Len(email))))
    IN  IF email = <<>> \/ Cardinality({i \in DOMAIN email : email[i] = "@"}) # 1 THEN <<>>
        ELSE IF dom \in DOMAIN emailDomainMap THEN emailDomainMap[dom]
        ELSE <<>>

\* finalizeConfig over the SMTP transport: provider, host, sender, recipients and retry
\* count; [ok, cfg]
finalizeConfig(cfg) ==
    LET prov0 == ToLower(cfg.Provider)
        prov  == IF prov0 = <<>> THEN inferProvider(cfg.From) ELSE prov0
        host  == IF cfg.Host = <<>> /\ prov \in DOMAIN providerDefaults
                 THEN providerDefaults[prov].Host ELSE cfg.Host
        addr  == splitAddress(cfg.From)
        c1    == [cfg EXCEPT !.Provider = prov, !.Host = host]
        c2    == [c1 EXCEPT !.From = addr,
                            !.Subject = IF @ = <<>> THEN <<"(","n","o"," ","s","u","b","j","e","c","t",")">> ELSE @]
        c3    == resolveBodies(c2)
    IN  IF addr = <<>> THEN [ok |-> FALSE, cfg |-> c1]
        ELSE IF Len(cfg.To) = 0 THEN [ok |-> FALSE, cfg |-> c3]
        ELSE IF host = <<>> THEN [ok |-> FALSE, cfg |-> c3]
        ELSE [ok |-> TRUE, cfg |-> [c3 EXCEPT !.RetryCount = IF @ <= 0 THEN 1 ELSE @]]

\* ProviderOrHost
ProviderOrHost(cfg) == IF cfg.Provider # <<>> THEN cfg.Provider ELSE cfg.Host

\* mutant of recordSendAttempt: every entry carries the ordinal 1
recordSendAttempt_firstOrdinal(ctx, cfg, attempt, success) ==
    [Timestamp |-> now, JobID |-> ctx.JobID, Step |-> ctx.Step, Attempt |-> 1,
     Provider |-> ProviderOrHost(cfg), Success |-> success, Recipients |-> cfg.To]

\* recordSendAttempt: the SendLogEntry of one attempt
recordSendAttempt(ctx, cfg, attempt, success) ==
    [Timestamp |-> now, JobID |-> ctx.JobID, Step |-> ctx.Step, Attempt |-> attempt,
     Provider |-> ProviderOrHost(cfg), Success |-> success, Recipients |-> cfg.To]

\* the entries of n failed attempts on one provider
failedAttempts(ctx, cfg, n) == [a \in 1..n |-> recordSendAttempt(ctx, cfg, a, FALSE)]

\* the calls of sendViaSMTP on providers[i], finalized as cfg: n of them, the last one
\* returning nil when ok
senderCalls(cfg, i, n, ok) ==
    [a \in 1..n |-> [index |-> i, provider |-> cfg.Provider, host |-> cfg.Host,
                     retryCount |-> cfg.RetryCount, attempt |-> a, ok |-> (ok /\ a = n)]]

\* the time.Sleep calls after the first n attempts on providers[i]
backoffs(i, n) == [a \in 1..n |-> [index |-> i, attempt |-> a]]

\* the values of lastErr: nil, the error of finalizeConfig on providers[index], the error
\* of the sender's call `attempt` on providers[index]
NoErr == [kind |-> "nil", index |-> 0, attempt |-> 0]

\* lastErr after the round on providers[i] that did not return
roundErr(f, i) ==
    IF ~f.ok THEN [kind |-> "config", index |-> i, attempt |-> 0]
    ELSE [kind |-> "send", index |-> i, attempt |-> f.cfg.RetryCount]

\* mutant of setLastErr: the first error is kept
setLastErr_first(lastErr, err) == IF lastErr = NoErr THEN err ELSE lastErr

\* lastErr = err
setLastErr(lastErr, err) == err

\* mutant of sendRound: the loop goes on after a success
sendRound_noStop(f, rest, ctx, i, okAt) ==
    IF ~f.ok THEN rest
    ELSE IF okAt[1] = i /\ okAt[2] <= f.cfg.RetryCount
    THEN [ok |-> TRUE,
          entries |-> Append(failedAttempts(ctx, f.cfg, okAt[2] - 1),
                             recordSendAttempt(ctx, f.cfg, okAt[2], TRUE)) \o rest.entries,
          sent |-> okAt[2] + rest.sent,
          tries |-> senderCalls(f.cfg, i, okAt[2], TRUE) \o rest.tries, err |-> NoErr,
          sleeps |-> backoffs(i, okAt[2] - 1) \o rest.sleeps]
    ELSE [ok |-> rest.ok,
          entries |-> failedAttempts(ctx, f.cfg, f.cfg.RetryCount) \o rest.entries,
          sent |-> f.cfg.RetryCount + rest.sent,
          tries |-> senderCalls(f.cfg, i, f.cfg.RetryCount, FALSE) \o rest.tries,
          err |-> rest.err,
          sleeps |-> backoffs(i, f.cfg.RetryCount - 1) \o rest.sleeps]

\* mutant of sendRound: a provider that cannot be finalized is tried once all the same
sendRound_triesUnfinalized(f, rest, ctx, i, okAt) ==
    IF okAt[1] = i /\ okAt[2] <= f.cfg.RetryCount /\ f.ok
    THEN [ok |-> TRUE,
          entries |-> Append(failedAttempts(ctx, f.cfg, okAt[2] - 1),
                             recordSendAttempt(ctx, f.cfg, okAt[2], TRUE)),
          sent |-> okAt[2],
          tries |-> senderCalls(f.cfg, i, okAt[2], TRUE), err |-> NoErr,
          sleeps |-> backoffs(i, okAt[2] - 1)]
    ELSE [ok |-> rest.ok,
          entries |-> failedAttempts(ctx, f.cfg, IF f.ok THEN f.cfg.RetryCount ELSE 1) \o rest.entries,
          sent |-> (IF f.ok THEN f.cfg.RetryCount ELSE 1) + rest.sent,
          tries |-> senderCalls(f.cfg, i, IF f.ok THEN f.cfg.RetryCount ELSE 1, FALSE) \o rest.tries,
          err |-> rest.err,
          sleeps |-> backoffs(i, (IF f.ok THEN f.cfg.RetryCount ELSE 1) - 1) \o rest.sleeps]

\* mutant of sendRound: the successful attempt is not recorded
sendRound_unloggedSuccess(f, rest, ctx, i, okAt) ==
    IF ~f.ok THEN rest
    ELSE IF okAt[1] = i /\ okAt[2] <= f.cfg.RetryCount
    THEN [ok |-> TRUE, entries |-> failedAttempts(ctx, f.cfg, okAt[2] - 1), sent |-> okAt[2],
          tries |-> senderCalls(f.cfg, i, okAt[2], TRUE), err |-> NoErr,
          sleeps |-> backoffs(i, okAt[2] - 1)]
    ELSE [ok |-> rest.ok,
          entries |-> failedAttempts(ctx, f.cfg, f.cfg.RetryCount) \o rest.entries,
          sent |-> f.cfg.RetryCount + rest.sent,
          tries |-> senderCalls(f.cfg, i, f.cfg.RetryCount, FALSE) \o rest.tries,
          err |-> rest.err,
          sleeps |-> backoffs(i, f.cfg.RetryCount - 1) \o rest.sleeps]

\* one round of sendEmail's provider loop on providers[i], finalized as f, when the
\* rounds after it give rest
sendRound(f, rest, ctx, i, okAt) ==
    IF ~f.ok THEN rest
    ELSE IF okAt[1] = i /\ okAt[2] <= f.cfg.RetryCount
    THEN [ok |-> TRUE,
          entries |-> Append(failedAttempts(ctx, f.cfg, okAt[2] - 1),
                             recordSendAttempt(ctx, f.cfg, okAt[2], TRUE)),
          sent |-> okAt[2],
          tries |-> senderCalls(f.cfg, i, okAt[2], TRUE), err |-> NoErr,
          sleeps |-> backoffs(i, okAt[2] - 1)]
    ELSE [ok |-> rest.ok,
          entries |-> failedAttempts(ctx, f.cfg, f.cfg.RetryCount) \o rest.entries,
          sent |-> f.cfg.RetryCount + rest.sent,
          tries |-> senderCalls(f.cfg, i, f.cfg.RetryCount, FALSE) \o rest.tries,
          err |-> rest.err,
          sleeps |-> backoffs(i, f.cfg.RetryCount - 1) \o rest.sleeps]

\* the provider loop of sendEmail from providers[i] on. okAt = <<p, a>> is what the
\* external sender does: attempt a on providers[p] is the first to succeed (p = 0: none
\* does); lastErr is the error the rounds before left. [ok, entries appended to the send
\* log, sender invocations, the calls of the sender, the error returned]
RECURSIVE sendLoop(_, _, _, _, _, _)
sendLoop(prepared, ctx, providers, i, okAt, lastErr) ==
    IF i > Len(providers)
    THEN [ok |-> FALSE, entries |-> <<>>, sent |-> 0, tries |-> <<>>, err |-> lastErr,
          sleeps |-> <<>>]
    ELSE sendRound(finalizeConfig([prepared EXCEPT !.Provider = providers[i]]),
                   sendLoop(prepared, ctx, providers, i + 1, okAt,
                            setLastErr(lastErr, roundErr(finalizeConfig([prepared EXCEPT !.Provider = providers[i]]), i))),
                   ctx, i, okAt)

\* what sendEmail reports when nothing was sent, logged or marked
noSend ==
    [result |-> "failure", key |-> <<>>, entries |-> <<>>, sent |-> 0,
     touched |-> FALSE, mark |-> FALSE, tries |-> <<>>, sleeps |-> <<>>, providers |-> <<>>,
     err |-> [kind |-> "prepare", index |-> 0, attempt |-> 0]]

\* sendEmail after its provider loop over the providers returned l; a nil lastErr is
\* returned as it is
sendReport(l, dedupKey, providers) ==
    [result |-> IF l.ok \/ l.err = NoErr THEN "ok" ELSE "failure", key |-> dedupKey,
     entries |-> l.entries, sent |-> l.sent,
     touched |-> dedupKey # <<>>, mark |-> l.ok /\ dedupKey # <<>>,
     tries |-> l.tries, sleeps |-> l.sleeps, providers |-> providers, err |-> l.err]

\* mutant of sendKeyed: DryRun is not looked at
sendKeyed_noDryRun(cfg, dedupKey, ctx, okAt) ==
    IF dedupKey # <<>> /\ dedupKeyExists(dedupKey)
    THEN [noSend EXCEPT !.result = "skipped-duplicate", !.key = dedupKey, !.touched = TRUE,
                        !.err.kind = "deduplicated"]
    ELSE sendReport(sendLoop(cfg, ctx, resolveProviders(cfg), 1, okAt, NoErr), dedupKey,
                    resolveProviders(cfg))

\* sendEmail from the dedup check on: the duplicate, the dry run, the provider loop
sendKeyed(cfg, dedupKey, ctx, okAt) ==
    IF dedupKey # <<>> /\ dedupKeyExists(dedupKey)
    THEN [noSend EXCEPT !.result = "skipped-duplicate", !.key = dedupKey, !.touched = TRUE,
                        !.err.kind = "deduplicated"]
    ELSE IF cfg.DryRun
    THEN [noSend EXCEPT !.result = "ok", !.key = dedupKey, !.touched = dedupKey # <<>>,
                        !.providers = resolveProviders(cfg), !.err = NoErr]
    ELSE sendReport(sendLoop(cfg, ctx, resolveProviders(cfg), 1, okAt, NoErr), dedupKey,
                    resolveProviders(cfg))

\* sendEmail once prepareSendConfig returned p
sendPrepared(p, ctx, okAt) ==
    IF ~p.ok THEN noSend
    ELSE sendKeyed(p.cfg, dedupKeyFromConfig(p.cfg, ctx), ctx, okAt)

\* sendEmail(cfg, ctx) against the current send log and dedup store:
\* [result, key, entries, sent, touched (the dedup store was consulted), mark (the key
\* was marked)]
sendEmail(cfg, ctx, okAt) == sendPrepared(prepareSendConfig(cfg, now), ctx, okAt)

\* the sender outcomes sendEmail may meet on cfg
SendOutcomes(cfg) ==
    {<<0, 0>>} \cup
    ((1..Len(resolveProviders(prepareSendConfig(cfg, now).cfg))) \X
     (1..(IF cfg.RetryCount <= 0 THEN 1 ELSE cfg.RetryCount)))

-----------------------------------------------------------------------------
(* SpecSend: sendEmail called again and again by processes that share the send log and
   the dedup store file *)

ctxWelcome == [NilCtx EXCEPT !.isNil = FALSE, !.JobID = <<"j","o","b","-","1">>, !.Step = <<"W","e","l","c","o","m","e">>]

\* schedule mode once, sent through smtp
msgOnce     == [Config0 EXCEPT !.ScheduleMode = strOnce, !.Body = <<"H","i">>]
\* the same as a dry run
msgDry      == [msgOnce EXCEPT !.DryRun = TRUE]
\* a dry run with a placeholder nothing defines
msgDryMissing == [msgDry EXCEPT !.Subject = <<"H","i"," ","{","{","w","h","o","}","}">>]
\* a body that quotes the clock
msgStamp    == [msgOnce EXCEPT !.Body = <<"a","t"," ","{","{","t","i","m","e","s","t","a","m","p","}","}">>]
\* a provider without host ahead of smtp, two attempts per provider
msgFallback == [msgOnce EXCEPT !.ProviderPriority = <<<<"r","e","l","a","y">>, strSmtp>>, !.Provider = <<>>,
                               !.RetryCount = 2]
\* two providers that can be finalized ahead of one without host, two attempts per
\* provider
msgTwo      == [msgFallback EXCEPT !.ProviderPriority = <<strSendgrid, strSmtp, <<"r","e","l","a","y">>>>]
\* a host and no provider name
msgHostOnly == [msgOnce EXCEPT !.Provider = <<>>, !.Host = <<"m","x",".","a","c","m","e",".","i","o">>]
\* a placeholder nothing defines
msgMissing  == [msgOnce EXCEPT !.Subject = <<"H","i"," ","{","{","w","h","o","}","}">>]
\* schedule mode repeat, a route with an hourly limit of one
msgRouted   == [Config0 EXCEPT !.Body = <<"H","i">>, !.ProviderRoutes = <<routeToHourly>>]
\* neither provider nor host
msgNoHost   == [msgOnce EXCEPT !.Provider = <<>>]
\* the step label comes from AdditionalData
msgStep     == [msgOnce EXCEPT !.Subject = <<"{","{","s","t","e","p","}","}","!">>,
                               !.AdditionalData = (strStep :> JStr(<<"I","n","t","r","o">>))]

\* what callers hand to sendEmail: a message and a context
SendInputs ==
    { <<msgOnce, ctxWelcome>>, <<msgDry, NilCtx>>, <<msgDry, ctxWelcome>>,
      <<msgDryMissing, NilCtx>>, <<msgStamp, NilCtx>>,
      <<msgFallback, ctxWelcome>>, <<msgMissing, NilCtx>>, <<msgRouted, NilCtx>>,
      <<msgNoHost, NilCtx>>, <<msgStep, NilCtx>> }

\* the number of sendEmail calls a behaviour makes
MaxCalls == 2

InitSend ==
    /\ now = Epoch
    /\ sendLog = <<>>
    /\ ResolveIdle
    /\ DedupIdle
    /\ calls = <<>>
    /\ StoreIdle
    /\ SchedIdle

\* what sendEmail, reporting r, has done to the send log and the dedup store
SendEffects(r) ==
    /\ sendLog' = sendLog \o r.entries
    /\ dedupLoaded' = (dedupLoaded \/ r.touched)
    /\ dedupCache' = IF r.mark THEN markDedupKey(r.key, now)
                     ELSE IF r.touched THEN loadDedupLocked
                     ELSE dedupCache
    /\ dedupFile' = IF r.mark THEN markDedupKey(r.key, now) ELSE dedupFile

\* what a call of sendEmail(msg, ctx) that reports r leaves behind
SendReturn(msg, ctx, r) ==
    /\ SendEffects(r)
    /\ calls' = Append(calls,
           [msg |-> msg, ctx |-> ctx, at |-> now, result |-> r.result,
            key |-> r.key, logBefore |-> Len(sendLog),
            logAfter |-> Len(sendLog) + Len(r.entries), sent |-> r.sent,
            providers |-> r.providers,
            tries |-> r.tries, sleeps |-> r.sleeps, err |-> r.err])

\* one call of sendEmail(cfg, ctx), from entry to return, on one of the inputs
SendCallOf(inputs) ==
    /\ Len(calls) < MaxCalls
    /\ \E inp \in inputs : \E okAt \in SendOutcomes(inp[1]) :
          SendReturn(inp[1], inp[2], sendEmail(inp[1], inp[2], okAt))
    /\ UNCHANGED <<now, resolveVars, storeVars, schedVars>>

SendCall == SendCallOf(SendInputs)

\* the clock moves on between two calls
SendAdvance ==
    /\ now - Epoch < Len(calls)
    /\ now' = now + 1
    /\ UNCHANGED <<sendLog, resolveVars, dedupVars, calls, storeVars, schedVars>>

\* the process ends and the next call runs in a new one: the in-memory cache is gone
SendRestart ==
    /\ dedupLoaded
    /\ dedupLoaded' = FALSE
    /\ dedupCache' = NoMap
    /\ UNCHANGED <<now, sendLog, resolveVars, dedupFile, calls, storeVars, schedVars>>

NextSend == SendCall \/ SendAdvance \/ SendRestart

SpecSend == InitSend /\ [][NextSend]_vars

-----------------------------------------------------------------------------
(* claims about the dispatcher, checked under SpecSend *)

ModeOf(m) == ToLower(TrimSpace(m.ScheduleMode))

\* the entries call c appended that report a success
SuccessEntries(c) == {k \in (c.logBefore + 1)..c.logAfter : sendLog[k].Success}

-----------------------------------------------------------------------------
(* the job store: FileJobStore over scheduler_store.json *)

strJob == <<"j","o","b">>

\* captureRawContent: the raw copies parseConfig leaves in a config
captureRawContent(cfg) == [cfg EXCEPT !.RawSubject = cfg.Subject, !.RawBody = cfg.Body]

\* an EmailConfig after json.Marshal and json.Unmarshal: the Raw* fields are json:"-"
jsonConfig(cfg) == [cfg EXCEPT !.RawSubject = <<>>, !.RawBody = <<>>]

\* a ScheduledEmail after json.Marshal and json.Unmarshal
jsonJob(job) == [job EXCEPT !.Config = jsonConfig(@)]

\* randomBoundary(prefix): the prefix, "-" and a value no earlier call returned (n counts
\* the calls)
randomBoundary(prefix, n) == prefix \o <<"-">> \o Digits(n)

\* loadAll: the array the store file holds, empty when there is no file
loadAll == jobsFile

\* persistAll(jobs): the content of the rewritten file
persistAll(jobs) == [i \in DOMAIN jobs |-> jsonJob(jobs[i])]

\* sort.Slice(jobs, RunAt before): not stable, so every order of the same jobs in which
\* RunAt does not decrease (any job of the least RunAt first, then the rest likewise)
RECURSIVE sortSlice(_)
sortSlice(jobs) ==
    IF jobs = <<>> THEN {<<>>}
    ELSE UNION { { <<jobs[i]>> \o r : r \in sortSlice(SubSeq(jobs, 1, i - 1) \o SubSeq(jobs, i + 1, Len(jobs))) } :
                   i \in {k \in DOMAIN jobs : \A j \in DOMAIN jobs : jobs[k].RunAt <= jobs[j].RunAt} }

\* the first index of a job with this id, 0 when there is none
firstIndex(jobs, id) ==
    IF \E i \in DOMAIN jobs : jobs[i].ID = id
    THEN CHOOSE i \in DOMAIN jobs : jobs[i].ID = id /\ \A j \in 1..(i - 1) : jobs[j].ID # id
    ELSE 0

\* Add on the loaded array: the arrays it may hand to persistAll
Add(jobs, job) == sortSlice(Append(jobs, job))

\* mutant of UpdateAt: a job that is not in the array is added to it
UpdateAt_upsert(jobs, job, i) ==
    IF i = 0 THEN [ok |-> TRUE, jobs |-> Append(jobs, job)]
    ELSE [ok |-> TRUE, jobs |-> [jobs EXCEPT ![i] = job]]

\* Update on the loaded array, the job's first match being at index i: [ok, jobs];
\* not ok is os.ErrNotExist, and nothing is persisted
UpdateAt(jobs, job, i) ==
    IF i = 0 THEN [ok |-> FALSE, jobs |-> jobs]
    ELSE [ok |-> TRUE, jobs |-> [jobs EXCEPT ![i] = job]]

Update(jobs, job) == UpdateAt(jobs, job, firstIndex(jobs, job.ID))

\* mutant of DeleteAt: the jobs after the match go with it
DeleteAt_truncate(jobs, i) ==
    IF i = 0 THEN [ok |-> FALSE, jobs |-> jobs]
    ELSE [ok |-> TRUE, jobs |-> SubSeq(jobs, 1, i - 1)]

\* Delete on the loaded array, the id's first match being at index i: [ok, jobs]
DeleteAt(jobs, i) ==
    IF i = 0 THEN [ok |-> FALSE, jobs |-> jobs]
    ELSE [ok |-> TRUE, jobs |-> SubSeq(jobs, 1, i - 1) \o SubSeq(jobs, i + 1, Len(jobs))]

Delete(jobs, id) == DeleteAt(jobs, firstIndex(jobs, id))

\* mutant of dueJobs: a job that runs at the instant asked for is not due
dueJobs_strict(jobs, before) ==
    LET idx == {i \in DOMAIN jobs : jobs[i].RunAt < before}
        pos(k) == CHOOSE i \in idx : Cardinality({j \in idx : j < i}) = k - 1
    IN  [k \in 1..Cardinality(idx) |-> jobs[pos(k)]]

\* the jobs of the array with RunAt <= before, in their order
dueJobs(jobs, before) ==
    LET idx == {i \in DOMAIN jobs : jobs[i].RunAt <= before}
        pos(k) == CHOOSE i \in idx : Cardinality({j \in idx : j < i}) = k - 1
    IN  [k \in 1..Cardinality(idx) |-> jobs[pos(k)]]

\* ListDue(before): the due jobs in an order of ascending RunAt
ListDue(before) == sortSlice(dueJobs(loadAll, before))

\* ListAll
ListAll == loadAll

\* Scheduler.Schedule: the job it builds, n ids having been handed out before
Schedule(cfg, runAt, meta, n) ==
    [ID |-> randomBoundary(strJob, n + 1), Config |-> cfg, RunAt |-> runAt, Attempts |-> 0,
     Meta |-> meta]

-----------------------------------------------------------------------------
(* SpecStore: one caller at a time adds, updates and deletes jobs *)

\* the configurations of the jobs: parsed, so with their raw copies
StoreConfigs == {captureRawContent(msgOnce), captureRawContent(msgStep)}

\* minutes from now to RunAt
StoreDelays == {0, 2}

\* the number of Add, Update and Delete calls a behaviour makes
MaxStoreOps == 3

\* the Add, Update and Delete calls made
StoreOps == Cardinality({k \in DOMAIN calls : calls[k].op # "ListDue"})

\* a job the store was never given
strangerJob ==
    [Schedule(captureRawContent(msgOnce), Epoch, NoMap, 0) EXCEPT !.ID = <<"j","o","b","-","x">>]

\* the jobs Add has been called with
AddedJobs == {calls[k].job : k \in {x \in DOMAIN calls : calls[x].op = "Add"}}

InitStore ==
    /\ now = Epoch
    /\ sendLog = <<>>
    /\ ResolveIdle
    /\ DedupIdle
    /\ SendIdle
    /\ StoreIdle
    /\ SchedIdle

\* Schedule(cfg, runAt, nil): a new job and Add, from entry to return
StoreAdd ==
    /\ StoreOps < MaxStoreOps /\ Len(calls) = StoreOps
    /\ \E cfg \in StoreConfigs, d \in StoreDelays :
          /\ jobsFile' \in {persistAll(a) : a \in Add(loadAll, Schedule(cfg, now + d, NoMap, idSeq))}
          /\ calls' = Append(calls, [op |-> "Add", job |-> Schedule(cfg, now + d, NoMap, idSeq),
                                     ok |-> TRUE, before |-> jobsFile])
    /\ idSeq' = idSeq + 1
    /\ UNCHANGED <<now, sendLog, resolveVars, dedupVars, schedVars>>

\* Update(job) with one more attempt counted, from entry to return
StoreUpdate ==
    /\ StoreOps < MaxStoreOps /\ Len(calls) = StoreOps
    /\ \E j \in AddedJobs \cup Range(loadAll) \cup {strangerJob} :
          /\ jobsFile' = IF Update(loadAll, j).ok
                          THEN persistAll(Update(loadAll, [j EXCEPT !.Attempts = @ + 1]).jobs)
                          ELSE jobsFile
          /\ calls' = Append(calls, [op |-> "Update", job |-> [j EXCEPT !.Attempts = @ + 1],
                                     ok |-> Update(loadAll, j).ok, before |-> jobsFile])
    /\ UNCHANGED <<now, sendLog, resolveVars, dedupVars, idSeq, schedVars>>

\* Delete(id), from entry to return
StoreDelete ==
    /\ StoreOps < MaxStoreOps /\ Len(calls) = StoreOps
    /\ \E j \in AddedJobs \cup {strangerJob} :
          /\ jobsFile' = IF Delete(loadAll, j.ID).ok
                          THEN persistAll(Delete(loadAll, j.ID).jobs)
                          ELSE jobsFile
          /\ calls' = Append(calls, [op |-> "Delete", job |-> j,
                                     ok |-> Delete(loadAll, j.ID).ok, before |-> jobsFile])
    /\ UNCHANGED <<now, sendLog, resolveVars, dedupVars, idSeq, schedVars>>

\* the instants ListDue is asked about, in minutes from now
DueOffsets == {0, 1}

\* ListDue(before), from entry to return; a behaviour ends with it
StoreListDue ==
    /\ Len(calls) = StoreOps
    /\ \E d \in DueOffsets : \E r \in ListDue(now + d) :
          calls' = Append(calls, [op |-> "ListDue", arg |-> now + d, jobs |-> r, ok |-> TRUE,
                                  before |-> jobsFile])
    /\ UNCHANGED <<now, sendLog, resolveVars, dedupVars, storeVars, schedVars>>

\* the clock moves on between two operations
StoreAdvance ==
    /\ now = Epoch /\ Len(calls) > 0
    /\ now' = now + 1
    /\ UNCHANGED <<sendLog, resolveVars, dedupVars, calls, storeVars, schedVars>>

NextStore == StoreAdd \/ StoreUpdate \/ StoreDelete \/ StoreListDue \/ StoreAdvance

SpecStore == InitStore /\ [][NextStore]_vars

-----------------------------------------------------------------------------
(* claims about the job store in the hands of one caller, checked under SpecStore *)

\* the operation that returned last
LastCall == calls[Len(calls)]

\* C7: after Add(j), ListAll() contains j, field for field as encoding/json keeps it (the
\* raw copies of subject and body are not part of the document); after a later
\* Delete(j.id) that finds the id, ListAll() has no job with that id and still has every
\* other job it had.
C7_StoreRoundTrip ==
    Len(calls) > 0 =>
        /\ LastCall.op = "Add" =>
              /\ \E i \in DOMAIN ListAll : ListAll[i] = jsonJob(LastCall.job)
              /\ \A i \in DOMAIN LastCall.before : \E k \in DOMAIN ListAll : ListAll[k] = LastCall.before[i]
              /\ Len(ListAll) = Len(LastCall.before) + 1
        /\ (LastCall.op = "Delete" /\ LastCall.ok) =>
              /\ \A i \in DOMAIN ListAll : ListAll[i].ID # LastCall.job.ID
              /\ \A i \in DOMAIN LastCall.before :
                    LastCall.before[i].ID # LastCall.job.ID
                        => \E k \in DOMAIN ListAll : ListAll[k] = LastCall.before[i]
              /\ Len(ListAll) = Len(LastCall.before) - 1

\* C7 witness: two jobs were added, the later one with the earlier RunAt, and the first
\* of the array is deleted while the other stays
C7_Witness ==
    /\ Len(calls) = 3
    /\ calls[1].op = "Add" /\ calls[2].op = "Add"
    /\ LastCall.op = "Delete" /\ LastCall.ok
    /\ LastCall.job.ID = calls[2].job.ID
    /\ LastCall.before[1].ID = LastCall.job.ID
    /\ LastCall.before[1].Config.Subject # LastCall.before[2].Config.Subject
    /\ Len(ListAll) = 1 /\ ListAll[1] = jsonJob(calls[1].job)

-----------------------------------------------------------------------------
(* SpecStoreConc: goroutines and processes call Add, Update and Delete at the same time.
   loadAll and persistAll each take the mutex on their own, so an operation is two
   steps: it loads the array, and later it persists the array it made of it *)

\* the callers at work at the same time
MaxProcs == 2

\* the number of store operations a behaviour starts
MaxConcOps == 3

\* a caller that has loaded the array snap and is about to persist
StoreProc(pid, op, job, snap) == [pid |-> pid, op |-> op, job |-> job, pc |-> "persist", snap |-> snap]

\* the callers free to start an operation
FreePids == {pid \in 1..MaxProcs : \A p \in procs : p.pid # pid}

\* the operations started so far
OpsStarted == Len(calls) + Cardinality(procs)

\* what the operation of p makes of the array it loaded: [ok, jobs], jobs being the arrays
\* it may persist
storeOpResult(p) ==
    IF p.op = "Add" THEN [ok |-> TRUE, jobs |-> Add(p.snap, p.job)]
    ELSE IF p.op = "Update" THEN [ok |-> Update(p.snap, p.job).ok, jobs |-> {Update(p.snap, p.job).jobs}]
    ELSE [ok |-> Delete(p.snap, p.job.ID).ok, jobs |-> {Delete(p.snap, p.job.ID).jobs}]

InitStoreConc == InitStore

\* Schedule builds a job and Add loads the array
ConcAdd ==
    /\ OpsStarted < MaxConcOps
    /\ \E pid \in FreePids, cfg \in StoreConfigs, d \in StoreDelays :
          procs' = procs \cup {StoreProc(pid, "Add", Schedule(cfg, now + d, NoMap, idSeq), loadAll)}
    /\ idSeq' = idSeq + 1
    /\ UNCHANGED <<now, sendLog, resolveVars, dedupVars, calls, jobsFile, jobResults, sched>>

\* Update, with one more attempt counted on a job taken from the store, loads the array
ConcUpdate ==
    /\ OpsStarted < MaxConcOps
    /\ \E pid \in FreePids, j \in Range(loadAll) :
          procs' = procs \cup {StoreProc(pid, "Update", [j EXCEPT !.Attempts = @ + 1], loadAll)}
    /\ UNCHANGED <<now, sendLog, resolveVars, dedupVars, calls, storeVars, jobResults, sched>>

\* Delete of a job taken from the store loads the array
ConcDelete ==
    /\ OpsStarted < MaxConcOps
    /\ \E pid \in FreePids, j \in Range(loadAll) :
          procs' = procs \cup {StoreProc(pid, "Delete", j, loadAll)}
    /\ UNCHANGED <<now, sendLog, resolveVars, dedupVars, calls, storeVars, jobResults, sched>>

\* the operation persists what it made of the array it loaded, or returns os.ErrNotExist,
\* and returns
ConcPersist ==
    /\ \E p \in procs :
          /\ jobsFile' \in IF storeOpResult(p).ok THEN {persistAll(a) : a \in storeOpResult(p).jobs}
                           ELSE {jobsFile}
          /\ calls' = Append(calls, [op |-> p.op, job |-> p.job, ok |-> storeOpResult(p).ok,
                                     before |-> p.snap])
          /\ procs' = procs \ {p}
    /\ UNCHANGED <<now, sendLog, resolveVars, dedupVars, idSeq, jobResults, sched>>

NextStoreConc == ConcAdd \/ ConcUpdate \/ ConcDelete \/ ConcPersist

SpecStoreConc == InitStoreConc /\ [][NextStoreConc]_vars

-----------------------------------------------------------------------------
(* claims about the job store under concurrent callers, checked under SpecStoreConc *)

\* a Delete of this id has returned nil
DeleteReturned(id) ==
    \E k \in DOMAIN calls : calls[k].op = "Delete" /\ calls[k].ok /\ calls[k].job.ID = id

\* C8 as stated: when Add, Update and Delete are called concurrently, the stored array
\* reflects every one of them once they have returned: an added job is there unless
\* a Delete of it returned nil, a deleted job is not, and an updated job shows an update.
C8_Original ==
    procs = {} =>
        \A k \in DOMAIN calls :
            calls[k].ok =>
                /\ (calls[k].op = "Add" /\ ~DeleteReturned(calls[k].job.ID))
                      => \E i \in DOMAIN jobsFile : jobsFile[i].ID = calls[k].job.ID
                /\ calls[k].op = "Delete"
                      => \A i \in DOMAIN jobsFile : jobsFile[i].ID # calls[k].job.ID
                /\ (calls[k].op = "Update" /\ ~DeleteReturned(calls[k].job.ID))
                      => \E i \in DOMAIN jobsFile :
                            jobsFile[i].ID = calls[k].job.ID /\ jobsFile[i].Attempts > 0

-----------------------------------------------------------------------------
(* the workflow executor: ScheduleGenericWorkflow and ScheduleWelcomeWorkflow *)

JArr(s) == [t |-> "array", v |-> s]
JObj(m) == [t |-> "object", v |-> m]

kName      == <<"n","a","m","e">>
kDelay     == <<"d","e","l","a","y","_","s","e","c","o","n","d","s">>
kRunAt     == <<"r","u","n","_","a","t">>
kSubject   == <<"s","u","b","j","e","c","t">>
kBody      == <<"b","o","d","y">>
kHtmlBody  == <<"h","t","m","l","_","b","o","d","y">>
kTo        == <<"t","o">>
kPriority  == <<"p","r","o","v","i","d","e","r","_","p","r","i","o","r","i","t","y">>
kRetry     == <<"r","e","t","r","y","_","c","o","u","n","t">>
kStepIndex == <<"s","t","e","p","_","i","n","d","e","x">>
kPrev      == <<"p","r","e","v","_","j","o","b","_","i","d">>
kRequire   == <<"r","e","q","u","i","r","e","_","l","a","s","t","_","s","u","c","c","e","s","s">>
kSkipAhead == <<"s","k","i","p","_","a","h","e","a","d">>

\* m[k].(T): the key is there and holds a value of JSON type t
HasType(m, k, t) == k \in DOMAIN m /\ m[k].t = t

\* time.Parse(time.RFC3339, v) on the instants written out here (minutes since 1970);
\* any other text is a parse error
rfc3339Instants == (<<"1","9","7","0","-","0","2","-","0","4","T","0","0",":","0","0",":","0","0","Z">> :> 34 * 24 * Hour) @@ (<<"1","9","7","0","-","0","2","-","0","3","T","0","0",":","0","1",":","0","0","Z">> :> Epoch + 1)

\* the step's RunAt, the workflow having started at instant t
stepRunAt(stepMap, t) ==
    IF HasType(stepMap, kRunAt, "string") /\ stepMap[kRunAt].v # <<>>
    THEN (IF stepMap[kRunAt].v \in DOMAIN rfc3339Instants THEN rfc3339Instants[stepMap[kRunAt].v] ELSE t)
    ELSE IF HasType(stepMap, kDelay, "number") THEN t + (stepMap[kDelay].v \div 60)
    ELSE t

\* the non-empty strings of a JSON array, in order
stringsOf(arr) ==
    LET idx == {i \in DOMAIN arr : arr[i].t = "string" /\ arr[i].v # <<>>}
        pos(k) == CHOOSE i \in idx : Cardinality({j \in idx : j < i}) = k - 1
    IN  [k \in 1..Cardinality(idx) |-> arr[pos(k)].v]

\* a string list override: the strings of the array under key k, else cur
listOverride(stepMap, k, cur) ==
    IF HasType(stepMap, k, "array") /\ Len(stepMap[k].v) > 0 /\ Len(stringsOf(stepMap[k].v)) > 0
    THEN stringsOf(stepMap[k].v)
    ELSE cur

\* the copy of the base config with the step's overrides, the metadata merged into its
\* AdditionalData
stepConfig(base, stepMap, meta) ==
    [base EXCEPT
        !.Subject = IF HasType(stepMap, kSubject, "string") /\ stepMap[kSubject].v # <<>>
                    THEN stepMap[kSubject].v ELSE @,
        !.Body = IF HasType(stepMap, kBody, "string") THEN stepMap[kBody].v ELSE @,
        !.TextBody = IF HasType(stepMap, kBody, "string") THEN stepMap[kBody].v ELSE @,
        !.HTMLBody = IF HasType(stepMap, kHtmlBody, "string") THEN stepMap[kHtmlBody].v ELSE @,
        !.To = listOverride(stepMap, kTo, @),
        !.ProviderPriority = listOverride(stepMap, kPriority, @),
        !.RetryCount = IF HasType(stepMap, kRetry, "number") THEN stepMap[kRetry].v ELSE @,
        !.AdditionalData = meta @@ @]

\* normalizeBool
normalizeBool(val) ==
    IF val.t = "bool" THEN val.v
    ELSE IF val.t = "string" THEN ToLower(TrimSpace(val.v)) \in {<<"t","r","u","e">>, <<"y","e","s">>, <<"1">>}
    ELSE IF val.t = "number" THEN val.v # 0
    ELSE FALSE

\* mutant of prevMeta: no step names its predecessor
prevMeta_none(lastJobID) == NoMap

\* the metadata that names the job of the step before
prevMeta(lastJobID) == IF lastJobID # <<>> THEN (kPrev :> JStr(lastJobID)) ELSE NoMap

\* the metadata of the step's name and step label; step wins over name
labelMeta(stepMap) ==
    (IF HasType(stepMap, strStep, "string") /\ stepMap[strStep].v # <<>>
     THEN (strStep :> stepMap[strStep]) ELSE NoMap)
    @@ (IF HasType(stepMap, kName, "string") /\ stepMap[kName].v # <<>>
        THEN (kName :> stepMap[kName]) @@ (strStep :> stepMap[kName]) ELSE NoMap)

\* whether the step requires the success of the one before
requireLast(stepMap, lastJobID) ==
    IF kRequire \in DOMAIN stepMap THEN normalizeBool(stepMap[kRequire]) ELSE lastJobID # <<>>

\* the metadata of a step that requires the success of the one before
requireMeta(stepMap, lastJobID) ==
    IF requireLast(stepMap, lastJobID)
    THEN (kRequire :> JBool(TRUE))
         @@ (kSkipAhead :> JBool(IF kSkipAhead \in DOMAIN stepMap
                                 THEN normalizeBool(stepMap[kSkipAhead]) ELSE FALSE))
    ELSE NoMap

\* mutant of labelFallback: a blank label is kept
labelFallback_keepBlank(meta, i) ==
    IF strStep \in DOMAIN meta THEN meta
    ELSE (strStep :> JStr(<<"s","t","e","p","-">> \o Digits(i))) @@ meta

\* a blank step label gives way to "step-i"
labelFallback(meta, i) ==
    IF strStep \in DOMAIN meta /\ TrimSpace(meta[strStep].v) # <<>> THEN meta
    ELSE (strStep :> JStr(<<"s","t","e","p","-">> \o Digits(i))) @@ meta

\* the metadata ScheduleGenericWorkflow gives step i (from 0), the step before having
\* been scheduled as lastJobID
stepMeta(stepMap, i, lastJobID) ==
    labelFallback(requireMeta(stepMap, lastJobID) @@ labelMeta(stepMap) @@ prevMeta(lastJobID)
                  @@ (kStepIndex :> JNum(i)), i)

\* the job of step i (from 0) of a generic workflow
stepJob(base, stepMap, i, lastJobID, t, n) ==
    Schedule(stepConfig(base, stepMap, stepMeta(stepMap, i, lastJobID)), stepRunAt(stepMap, t),
             stepMeta(stepMap, i, lastJobID), n)

\* the outcomes [err, store, n] of a workflow that found `store`, went through its loop
\* as r and had n ids handed out before it. What an Add may persist depends on the jobs
\* of the array it loaded, not on their order: the loop follows one of the arrays, and
\* the arrays the last Add may leave are drawn here.
workflowOutcomes(r, n) ==
    IF r.n = n THEN {r} ELSE {[r EXCEPT !.store = a] : a \in sortSlice(r.store)}

\* the loop of ScheduleGenericWorkflow from arr[i] on, against the store array `store`, n
\* ids having been handed out: [err, store, n]
RECURSIVE scheduleSteps(_, _, _, _, _, _, _)
RECURSIVE scheduleStep(_, _, _, _, _, _, _)
scheduleStep(store, n, base, arr, i, job, t) ==
    scheduleSteps(persistAll(CHOOSE a \in Add(store, job) : TRUE), n + 1, base, arr, i + 1, job.ID, t)

scheduleSteps(store, n, base, arr, i, lastJobID, t) ==
    IF i > Len(arr) THEN [err |-> FALSE, store |-> store, n |-> n]
    ELSE IF arr[i].t # "object" THEN [err |-> TRUE, store |-> store, n |-> n]
    ELSE scheduleStep(store, n, base, arr, i, stepJob(base, arr[i].v, i - 1, lastJobID, t, n), t)

\* ScheduleGenericWorkflow(s, base, def) at instant t: the outcomes it may end with
ScheduleGenericWorkflow(store, n, base, def, t) ==
    IF def.t # "array" THEN {[err |-> TRUE, store |-> store, n |-> n]}
    ELSE workflowOutcomes(scheduleSteps(store, n, base, def.v, 1, <<>>, t), n)

\* the steps of the welcome workflow: offset in minutes, step, subject
welcomeSteps ==
    << [offset |-> 0, step |-> <<"w","e","l","c","o","m","e">>, subj |-> <<"W","e","l","c","o","m","e","!">>],
       [offset |-> 1, step |-> <<"c","r","e","d","e","n","t","i","a","l","s">>, subj |-> <<"Y","o","u","r"," ","l","o","g","i","n"," ","c","r","e","d","e","n","t","i","a","l","s">>],
       [offset |-> Hour, step |-> <<"w","a","l","k","t","h","r","o","u","g","h">>, subj |-> <<"P","r","o","d","u","c","t"," ","w","a","l","k","t","h","r","o","u","g","h">>],
       [offset |-> 7 * 24 * Hour, step |-> <<"i","d","l","e","_","r","e","m","i","n","d","e","r">>, subj |-> <<"W","e"," ","m","i","s","s"," ","y","o","u">>] >>

\* the metadata ScheduleWelcomeWorkflow gives step idx (from 0)
welcomeMeta(sdef, idx, lastJobID) ==
    (kSkipAhead :> JBool(FALSE))
    @@ (IF lastJobID # <<>> THEN (kRequire :> JBool(TRUE)) ELSE NoMap)
    @@ prevMeta(lastJobID)
    @@ (kStepIndex :> JNum(idx))
    @@ (strStep :> JStr(sdef.step))

\* the job of step idx (from 0) of the welcome workflow
welcomeJob(base, sdef, idx, lastJobID, t, n) ==
    Schedule([base EXCEPT !.Subject = sdef.subj,
                          !.AdditionalData = welcomeMeta(sdef, idx, lastJobID) @@ @],
             t + sdef.offset, welcomeMeta(sdef, idx, lastJobID), n)

\* the loop of ScheduleWelcomeWorkflow from steps[i] on: [err, store, n]
RECURSIVE welcomeLoop(_, _, _, _, _, _)
RECURSIVE welcomeStep(_, _, _, _, _, _)
welcomeStep(store, n, base, i, job, t) ==
    welcomeLoop(persistAll(CHOOSE a \in Add(store, job) : TRUE), n + 1, base, i + 1, job.ID, t)

welcomeLoop(store, n, base, i, lastJobID, t) ==
    IF i > Len(welcomeSteps) THEN [err |-> FALSE, store |-> store, n |-> n]
    ELSE welcomeStep(store, n, base, i, welcomeJob(base, welcomeSteps[i], i - 1, lastJobID, t, n), t)

\* ScheduleWelcomeWorkflow(s, base) at instant t: the outcomes it may end with
ScheduleWelcomeWorkflow(store, n, base, t) ==
    workflowOutcomes(welcomeLoop(store, n, base, 1, <<>>, t), n)

-----------------------------------------------------------------------------
(* SpecWorkflow: workflows are scheduled one after the other into one store *)

\* three steps; the second runs two minutes later under its own subject, the third has a
\* blank name and an unreadable run_at
defThree ==
    JArr(<< JObj(kName :> JStr(<<"i","n","t","r","o">>)),
            JObj((strStep :> JStr(<<"t","i","p","s">>)) @@ (kDelay :> JNum(120)) @@ (kSubject :> JStr(<<"T","i","p","s">>))),
            JObj((kName :> JStr(<<" ">>)) @@ (kRunAt :> JStr(<<"s","o","o","n">>)) @@ (kDelay :> JNum(60))) >>)

\* two steps, the first one due after the second
defLateFirst ==
    JArr(<< JObj((kName :> JStr(<<"l","a","t","e","r">>)) @@ (kRunAt :> JStr(<<"1","9","7","0","-","0","2","-","0","4","T","0","0",":","0","0",":","0","0","Z">>))),
            JObj((kName :> JStr(<<"s","o","o","n","e","r">>)) @@ (kBody :> JStr(<<"N","o","w">>)) @@ (kSkipAhead :> JStr(<<"y","e","s">>))) >>)

\* two steps with their own recipients and providers; the second does not wait
defOverrides ==
    JArr(<< JObj((kTo :> JArr(<<JStr(addrOther), JNum(1), JStr(<<>>)>>)) @@ (kRequire :> JBool(TRUE))
                 @@ (kRetry :> JNum(2))),
            JObj((kPriority :> JArr(<<JStr(strSendgrid)>>)) @@ (kRequire :> JNum(0))
                 @@ (kHtmlBody :> JStr(<<"<","p",">","H","i","<","/","p",">">>))) >>)

\* the second element is not an object
defBadStep == JArr(<< JObj(kName :> JStr(<<"i","n","t","r","o">>)), JStr(<<"o","o","p","s">>) >>)

\* not an array
defNoArray == JObj(kName :> JStr(<<"i","n","t","r","o">>))

defEmpty == JArr(<<>>)

WfDefs == {defThree, defLateFirst, defOverrides, defBadStep, defNoArray, defEmpty}

WfBases == {captureRawContent(msgOnce), captureRawContent(msgStep)}

\* the number of workflows a behaviour schedules
MaxWorkflows == 2

\* the minutes between two workflows: no two are scheduled within the same minute
WfGap == 3

\* no workflow has been scheduled in this minute
WfFresh == \A i \in DOMAIN calls : calls[i].at < now

InitWorkflow == InitStore

\* ScheduleGenericWorkflow(s, base, def), from entry to return
WfGeneric ==
    /\ Len(calls) < MaxWorkflows /\ WfFresh
    /\ \E base \in WfBases, def \in WfDefs :
          \E r \in ScheduleGenericWorkflow(loadAll, idSeq, base, def, now) :
              /\ jobsFile' = r.store
              /\ idSeq' = r.n
              /\ calls' = Append(calls, [op |-> "generic", at |-> now, def |-> def, err |-> r.err,
                                         steps |-> IF def.t = "array" THEN Len(def.v) ELSE 0,
                                         before |-> jobsFile])
    /\ UNCHANGED <<now, sendLog, resolveVars, dedupVars, schedVars>>

\* ScheduleWelcomeWorkflow(s, base), from entry to return
WfWelcome ==
    /\ Len(calls) < MaxWorkflows /\ WfFresh
    /\ \E base \in WfBases :
          \E r \in ScheduleWelcomeWorkflow(loadAll, idSeq, base, now) :
              /\ jobsFile' = r.store
              /\ idSeq' = r.n
              /\ calls' = Append(calls, [op |-> "welcome", at |-> now, def |-> defEmpty, err |-> r.err,
                                         steps |-> Len(welcomeSteps), before |-> jobsFile])
    /\ UNCHANGED <<now, sendLog, resolveVars, dedupVars, schedVars>>

\* the clock moves on between two workflows
WfAdvance ==
    /\ ~WfFresh
    /\ now' = now + WfGap
    /\ UNCHANGED <<sendLog, resolveVars, dedupVars, calls, storeVars, schedVars>>

NextWorkflow == WfGeneric \/ WfWelcome \/ WfAdvance

SpecWorkflow == InitWorkflow /\ [][NextWorkflow]_vars

-----------------------------------------------------------------------------
(* claims about the workflow executor, checked under SpecWorkflow *)

\* the positions in the store of the jobs that were not there before call c
NewJobs(c) ==
    {i \in DOMAIN jobsFile : \A k \in DOMAIN c.before : c.before[k].ID # jobsFile[i].ID}

\* those of them scheduled for step i (from 0)
StepJobs(c, i) ==
    {k \in NewJobs(c) : kStepIndex \in DOMAIN jobsFile[k].Meta /\ jobsFile[k].Meta[kStepIndex] = JNum(i)}

\* C9: a workflow of N steps that is scheduled without error leaves exactly N new jobs
\* in the job store, one per step; the job of step 0 has no prev_job_id and the job of
\* every step i >= 1 has the id of the job of step i-1 as its prev_job_id. This holds for
\* the generic workflow and for the welcome workflow (N = 4).
C9_WorkflowChain ==
    (Len(calls) > 0 /\ ~LastCall.err) =>
        /\ Len(jobsFile) = Len(LastCall.before) + LastCall.steps
        /\ Cardinality(NewJobs(LastCall)) = LastCall.steps
        /\ \A i \in 0..(LastCall.steps - 1) : Cardinality(StepJobs(LastCall, i)) = 1
        /\ \A k \in StepJobs(LastCall, 0) : kPrev \notin DOMAIN jobsFile[k].Meta
        /\ \A i \in 1..(LastCall.steps - 1) :
              \A k \in StepJobs(LastCall, i), p \in StepJobs(LastCall, i - 1) :
                  /\ kPrev \in DOMAIN jobsFile[k].Meta
                  /\ jobsFile[k].Meta[kPrev] = JStr(jobsFile[p].ID)
                  /\ jobsFile[k].Config.AdditionalData[kPrev] = JStr(jobsFile[p].ID)

\* C9 witness: after a generic workflow of two steps whose second step is due first and
\* so stands before the first in the store, a welcome workflow is scheduled
C9_Witness ==
    /\ Len(calls) = 2
    /\ calls[1].op = "generic" /\ calls[1].def = defLateFirst /\ ~calls[1].err
    /\ LastCall.op = "welcome" /\ ~LastCall.err
    /\ Len(jobsFile) = 6
    /\ Cardinality(StepJobs(LastCall, 3)) = 1
    /\ \E k \in DOMAIN jobsFile, p \in DOMAIN jobsFile :
          /\ k < p /\ k \notin NewJobs(LastCall)
          /\ kPrev \in DOMAIN jobsFile[k].Meta /\ jobsFile[k].Meta[kPrev] = JStr(jobsFile[p].ID)


-----------------------------------------------------------------------------
(* the scheduler worker: runLoop and what it calls *)

JobResultSuccess == "success"
JobResultFailed  == "failed"
JobResultSkipped == "skipped"
JobResultBlocked == "blocked"

\* asInt on a value read from JSON
asInt(value) == IF value.t = "number" THEN value.v ELSE 0

\* meta[k].(string), "" when it is no string
metaString(meta, k) == IF HasType(meta, k, "string") THEN meta[k].v ELSE <<>>

\* buildSendContext
buildSendContext(job) ==
    [isNil |-> FALSE,
     JobID |-> job.ID,
     StepIndex |-> IF kStepIndex \in DOMAIN job.Meta THEN asInt(job.Meta[kStepIndex]) ELSE 0,
     Step |-> IF metaString(job.Meta, strStep) # <<>> THEN metaString(job.Meta, strStep)
              ELSE metaString(job.Meta, kName),
     PrevJobID |-> metaString(job.Meta, kPrev),
     RequireLastSuccess |-> kRequire \in DOMAIN job.Meta /\ normalizeBool(job.Meta[kRequire]),
     SkipAhead |-> kSkipAhead \in DOMAIN job.Meta /\ normalizeBool(job.Meta[kSkipAhead])]

\* getJobResult: [ok, res]
getJobResult(jobID) ==
    IF jobID # <<>> /\ jobID \in DOMAIN jobResults
    THEN [ok |-> TRUE, res |-> jobResults[jobID]]
    ELSE [ok |-> FALSE, res |-> ""]

\* recordJobResult: the map it writes out
recordJobResult(jobID, result) ==
    IF jobID = <<>> THEN jobResults ELSE (jobID :> result) @@ jobResults

\* mutant of dependencyCheck: a parent without a result does not hold the job back
dependencyCheck_noWait(ctx, prev) ==
    IF ctx.RequireLastSuccess /\ ctx.PrevJobID # <<>> /\ prev.ok /\ prev.res # JobResultSuccess
    THEN "blocked"
    ELSE "send"

\* mutant of dependencyCheck: any recorded result of the parent lets the job through
dependencyCheck_anyResult(ctx, prev) ==
    IF ctx.RequireLastSuccess /\ ctx.PrevJobID # <<>> /\ ~prev.ok THEN "wait" ELSE "send"

\* the dependency check of a worker, prev being getJobResult(ctx.PrevJobID): the worker
\* goes on to send, handles the dependency failure, or returns and leaves the job
dependencyCheck(ctx, prev) ==
    IF ctx.RequireLastSuccess /\ ctx.PrevJobID # <<>>
    THEN IF prev.ok
         THEN IF prev.res # JobResultSuccess THEN "blocked" ELSE "send"
         ELSE "wait"
    ELSE "send"

\* mutant of dependencyStatus: skip_ahead is not looked at
dependencyStatus_blocked(ctx) == JobResultBlocked

\* handleDependencyFailure: the result it records
dependencyStatus(ctx) == IF ctx.SkipAhead THEN JobResultSkipped ELSE JobResultBlocked

\* the worker's copy of the job's config, the job's metadata merged into AdditionalData
cfgCopy(job) ==
    [job.Config EXCEPT !.AdditionalData =
        [k \in DOMAIN job.Config.AdditionalData \cup {m \in DOMAIN job.Meta : TrimSpace(m) # <<>>} |->
            IF k \in DOMAIN job.Meta /\ TrimSpace(k) # <<>> THEN job.Meta[k]
            ELSE job.Config.AdditionalData[k]]]

-----------------------------------------------------------------------------
(* SpecSched: the worker process. A workflow has been scheduled; the ticker lists the due
   jobs and launches one goroutine per job, and the goroutines run side by side. A
   goroutine takes its steps one lock or one file operation at a time: the dependency
   check, sendEmail (from entry to return), recordJobResult, and loadAll and persistAll of
   the store's Delete or Update *)

\* the workflows the store starts with
SchedDefs == {defLateFirst}

SchedBases == {captureRawContent(msgOnce)}

\* the ticks of a behaviour
MaxTicks == 3

\* the goroutines at work at the same time
MaxInFlight == 3

\* the goroutine launched for job on tick number tick; hdf: it is inside
\* handleDependencyFailure
Worker(tick, job) ==
    [wid |-> <<tick, job.ID>>, job |-> job, pc |-> "check", op |-> "Delete", status |-> "",
     snap |-> <<>>, hdf |-> FALSE]

InitSched ==
    /\ now = Epoch
    /\ sendLog = <<>>
    /\ ResolveIdle
    /\ DedupIdle
    /\ calls = <<>>
    /\ SchedStarted
    /\ \E base \in SchedBases :
          \E r \in UNION {ScheduleGenericWorkflow(<<>>, 0, base, def, Epoch) : def \in SchedDefs} :
              jobsFile = r.store /\ idSeq = r.n

\* a tick: one goroutine per job of ListDue(now). calls holds a record per tick: the jobs
\* that were due, the jobs that had a result, and the jobs that the goroutines of this
\* tick have left waiting
SchedTick ==
    /\ Len(calls) < MaxTicks
    /\ \E jobs \in ListDue(now) :
          /\ Cardinality(procs) + Len(jobs) <= MaxInFlight
          /\ procs' = procs \cup {Worker(Len(calls) + 1, jobs[k]) : k \in DOMAIN jobs}
          /\ calls' = Append(calls, [op |-> "tick", at |-> now,
                                     due |-> {jobs[k].ID : k \in DOMAIN jobs},
                                     results |-> DOMAIN jobResults, waited |-> {}])
          /\ sched' = [sched EXCEPT !.wg = @ + Len(jobs)]
    /\ UNCHANGED <<now, sendLog, resolveVars, dedupVars, storeVars, jobResults>>

\* the clock moves on to the instant a stored job falls due
SchedAdvance ==
    /\ \E i \in DOMAIN jobsFile : jobsFile[i].RunAt > now /\ now' = jobsFile[i].RunAt
    /\ UNCHANGED <<sendLog, resolveVars, dedupVars, calls, storeVars, schedVars>>

\* defer s.wg.Done(): the WaitGroup after a step with which a goroutine may have returned
wgDone(returned) == IF returned THEN [sched EXCEPT !.wg = @ - 1] ELSE sched

\* the goroutine w after its dependency check gave d
checkOutcome(w, ctx, d) ==
    /\ procs' = IF d = "wait" THEN procs \ {w}
                ELSE IF d = "send" THEN (procs \ {w}) \cup {[w EXCEPT !.pc = "send"]}
                ELSE (procs \ {w}) \cup {[w EXCEPT !.pc = "record", !.status = dependencyStatus(ctx),
                                                   !.hdf = TRUE]}
    /\ calls' = IF d = "wait" THEN [calls EXCEPT ![w.wid[1]].waited = @ \cup {w.job.ID}]
                ELSE calls
    /\ sched' = wgDone(d = "wait")

\* a goroutine builds its context and checks its dependency
WorkerCheck ==
    /\ \E w \in procs :
          /\ w.pc = "check"
          /\ checkOutcome(w, buildSendContext(w.job),
                          dependencyCheck(buildSendContext(w.job),
                                          getJobResult(buildSendContext(w.job).PrevJobID)))
    /\ UNCHANGED <<now, sendLog, resolveVars, dedupVars, storeVars, jobResults>>

\* the goroutine w after sendEmail reported r
sendOutcome(w, r) ==
    /\ SendEffects(r)
    /\ procs' = (procs \ {w}) \cup
                { IF r.result = "failure"
                  THEN [w EXCEPT !.pc = "load", !.op = "Update", !.status = JobResultFailed,
                                 !.job = [@ EXCEPT !.Attempts = @ + 1]]
                  ELSE [w EXCEPT !.pc = "record",
                                 !.status = IF r.result = "ok" THEN JobResultSuccess
                                            ELSE JobResultSkipped] }

\* a goroutine merges the metadata into its copy and calls sendEmail
WorkerSend ==
    /\ \E w \in procs :
          /\ w.pc = "send"
          /\ \E okAt \in SendOutcomes(cfgCopy(w.job)) :
                sendOutcome(w, sendEmail(cfgCopy(w.job), buildSendContext(w.job), okAt))
    /\ UNCHANGED <<now, resolveVars, calls, storeVars, jobResults, sched>>

\* a goroutine records the result of its job; after a failed send this is its last step
WorkerRecord ==
    /\ \E w \in procs :
          /\ w.pc = "record"
          /\ jobResults' = recordJobResult(w.job.ID, w.status)
          /\ procs' = IF w.op = "Delete" THEN (procs \ {w}) \cup {[w EXCEPT !.pc = "load"]}
                      ELSE procs \ {w}
          /\ sched' = wgDone(w.op # "Delete")
    /\ UNCHANGED <<now, sendLog, resolveVars, dedupVars, calls, storeVars>>

\* Delete or Update loads the array
WorkerLoad ==
    /\ \E w \in procs :
          /\ w.pc = "load"
          /\ procs' = (procs \ {w}) \cup {[w EXCEPT !.pc = "persist", !.snap = loadAll]}
    /\ UNCHANGED <<now, sendLog, resolveVars, dedupVars, calls, storeVars, jobResults, sched>>

\* Delete or Update persists what it made of the array it loaded, or returns
\* os.ErrNotExist; after Delete the goroutine is done
WorkerPersist ==
    /\ \E w \in procs :
          /\ w.pc = "persist"
          /\ jobsFile' \in IF storeOpResult(w).ok THEN {persistAll(a) : a \in storeOpResult(w).jobs}
                           ELSE {jobsFile}
          /\ procs' = IF w.op = "Update" THEN (procs \ {w}) \cup {[w EXCEPT !.pc = "record", !.snap = <<>>]}
                      ELSE procs \ {w}
          /\ sched' = wgDone(w.op # "Update")
    /\ UNCHANGED <<now, sendLog, resolveVars, dedupVars, calls, idSeq, jobResults>>

NextSched ==
    SchedTick \/ SchedAdvance \/ WorkerCheck \/ WorkerSend \/ WorkerRecord \/ WorkerLoad \/ WorkerPersist

SpecSched == InitSched /\ [][NextSched]_vars

-----------------------------------------------------------------------------
(* claims about the scheduler worker, checked under SpecSched *)

\* the job requires its predecessor's success and names a predecessor
RequiresParent(job) ==
    /\ kRequire \in DOMAIN job.Meta /\ normalizeBool(job.Meta[kRequire])
    /\ HasType(job.Meta, kPrev, "string") /\ job.Meta[kPrev].v # <<>>

\* the goroutine w is about to check a job whose predecessor has no recorded result
ParentUnrecorded(w) ==
    w.pc = "check" /\ RequiresParent(w.job) /\ w.job.Meta[kPrev].v \notin DOMAIN jobResults

\* the job with this id is in the store and due
StoredAndDue(id) == \E i \in DOMAIN jobsFile : jobsFile[i].ID = id /\ jobsFile[i].RunAt <= now

\* a step in which a goroutine checks a job whose predecessor has no recorded result
\* ends that goroutine and changes neither the store, nor the results, nor the send log,
\* nor the dedup store; the job is in the store and due
WaitLeavesJob ==
    \A w \in procs :
        (ParentUnrecorded(w) /\ w \notin procs') =>
            /\ \A v \in procs' : v.wid # w.wid
            /\ jobsFile' = jobsFile /\ jobResults' = jobResults /\ sendLog' = sendLog
            /\ dedupFile' = dedupFile
            /\ StoredAndDue(w.job.ID)

\* every job that a goroutine of one tick left waiting is among the jobs of the next tick
WaitedThenDue == \A k \in 2..Len(calls) : calls[k - 1].waited \subseteq calls[k].due

\* ... or had a result by then
WaitedThenDueOrDone ==
    \A k \in 2..Len(calls) : calls[k - 1].waited \subseteq (calls[k].due \cup calls[k].results)

-----------------------------------------------------------------------------
(* SpecDispatch: the worker process over two ticks, with two goroutines at a time, on
   stores that hold a chain of two jobs or two jobs independent of each other *)

\* two steps due at once; the second waits for the first and is blocked when it fails
defChain == JArr(<< JObj(kName :> JStr(<<"f","i","r","s","t">>)), JObj(kName :> JStr(<<"s","e","c","o","n","d">>)) >>)

DispatchDefs == {defChain, defLateFirst, defOverrides}

MaxDispatchTicks == 2

MaxDispatchFlight == 3

InitDispatch ==
    /\ now = Epoch
    /\ sendLog = <<>>
    /\ ResolveIdle
    /\ DedupIdle
    /\ calls = <<>>
    /\ SchedStarted
    /\ \E base \in SchedBases :
          \E r \in UNION {ScheduleGenericWorkflow(<<>>, 0, base, def, Epoch) : def \in DispatchDefs} :
              jobsFile = r.store /\ idSeq = r.n

\* a tick: one goroutine per job of ListDue(now)
DispatchTick ==
    /\ Len(calls) < MaxDispatchTicks
    /\ \E jobs \in ListDue(now) :
          /\ Cardinality(procs) + Len(jobs) <= MaxDispatchFlight
          /\ procs' = procs \cup {Worker(Len(calls) + 1, jobs[k]) : k \in DOMAIN jobs}
          /\ calls' = Append(calls, [op |-> "tick", at |-> now,
                                     due |-> {jobs[k].ID : k \in DOMAIN jobs},
                                     results |-> DOMAIN jobResults, waited |-> {}])
          /\ sched' = [sched EXCEPT !.wg = @ + Len(jobs)]
    /\ UNCHANGED <<now, sendLog, resolveVars, dedupVars, storeVars, jobResults>>

NextDispatch ==
    DispatchTick \/ SchedAdvance \/ WorkerCheck \/ WorkerSend \/ WorkerRecord \/ WorkerLoad \/ WorkerPersist

SpecDispatch == InitDispatch /\ [][NextDispatch]_vars

-----------------------------------------------------------------------------
(* claims about the goroutine of one job, checked under SpecDispatch *)

\* the goroutine w is about to check a job whose predecessor has a result other than
\* success
ParentNotSuccess(w) ==
    /\ w.pc = "check" /\ RequiresParent(w.job)
    /\ w.job.Meta[kPrev].v \in DOMAIN jobResults
    /\ jobResults[w.job.Meta[kPrev].v] # JobResultSuccess

\* the result a job's dependency failure is recorded as
ExpectedDependencyResult(job) ==
    IF kSkipAhead \in DOMAIN job.Meta /\ normalizeBool(job.Meta[kSkipAhead]) THEN "skipped"
    ELSE "blocked"

\* the goroutine that w is after its step, if it has not returned
Successors(w) == {v \in procs' : v.wid = w.wid}

\* the check of a job whose predecessor did not succeed leads into the dependency
\* failure, and every step of a goroutine in there leaves the send log and the dedup
\* store alone: it records the result, then loads the store, then persists it without
\* the job (or finds the job gone already) and returns
DependencyFailureSteps ==
    \A w \in procs :
        /\ (ParentNotSuccess(w) /\ w \notin procs') =>
              /\ \E v \in Successors(w) : v.hdf /\ v.pc = "record"
              /\ UNCHANGED <<sendLog, dedupVars, jobsFile, jobResults>>
        /\ (w.hdf /\ w \notin procs') =>
              /\ UNCHANGED <<sendLog, dedupVars>>
              /\ w.pc \in {"record", "load", "persist"}
              /\ w.pc = "record" =>
                    /\ w.job.ID \in DOMAIN jobResults'
                    /\ jobResults'[w.job.ID] = ExpectedDependencyResult(w.job)
                    /\ \E v \in Successors(w) : v.hdf /\ v.pc = "load"
              /\ w.pc = "load" => \E v \in Successors(w) : v.hdf /\ v.pc = "persist"
              /\ w.pc = "persist" =>
                    /\ Successors(w) = {}
                    /\ \A i \in DOMAIN jobsFile' : jobsFile'[i].ID # w.job.ID

\* C11 as stated: a worker that finds a job with require_last_success and a non-empty
\* prev_job_id whose parent has a recorded result other than success never dispatches it:
\* it records skipped if skip_ahead is true and blocked otherwise, deletes the job from
\* the store and appends no SendLogEntry.
C11_Original == [][DependencyFailureSteps]_vars

\* all of it but the deletion: the check leads into the dependency failure, which
\* records skipped or blocked and appends no SendLogEntry
DependencyFailureRecords ==
    \A w \in procs :
        /\ (ParentNotSuccess(w) /\ w \notin procs') =>
              /\ \E v \in Successors(w) : v.hdf /\ v.pc = "record"
              /\ UNCHANGED <<sendLog, dedupVars, jobsFile, jobResults>>
        /\ (w.hdf /\ w \notin procs') =>
              /\ UNCHANGED <<sendLog, dedupVars>>
              /\ w.pc = "record" =>
                    /\ w.job.ID \in DOMAIN jobResults'
                    /\ jobResults'[w.job.ID] = ExpectedDependencyResult(w.job)

NeverDispatchedAfterFailure == [][DependencyFailureRecords]_vars

\* the parent failed and is still in the store; the child, which does not skip ahead, is
\* blocked and deleted, no worker is left, and the send log holds the parent's failed
\* attempt only
BlockedAndDeleted ==
    /\ procs = {}
    /\ Len(jobsFile) = 1
    /\ jobsFile[1].ID \in DOMAIN jobResults /\ jobResults[jobsFile[1].ID] = JobResultFailed
    /\ \E id \in DOMAIN jobResults : jobResults[id] = JobResultBlocked
    /\ \A i \in DOMAIN sendLog : ~sendLog[i].Success /\ sendLog[i].JobID = jobsFile[1].ID

\* the job with this id as the store file will hold it after the step (the set is empty
\* when it will not)
StoredNext(id) == {jobsFile'[i] : i \in {k \in DOMAIN jobsFile' : jobsFile'[k].ID = id}}

\* the step with which a goroutine that has called sendEmail returns leaves the
\* bookkeeping of its outcome: after ok and after skipped-duplicate the result success or
\* skipped and no such job in the store; after a failure the result failed and the job in
\* the store with the attempts the goroutine counted and the run_at it had
DispatchBookkeeping ==
    \A w \in procs :
        (~w.hdf /\ w.pc \in {"record", "persist"} /\ w \notin procs' /\ Successors(w) = {}) =>
            /\ w.job.ID \in DOMAIN jobResults'
            /\ jobResults'[w.job.ID] = w.status
            /\ w.status \in {JobResultSuccess, JobResultSkipped} => StoredNext(w.job.ID) = {}
            /\ w.status = JobResultFailed =>
                  /\ StoredNext(w.job.ID) # {}
                  /\ \A j \in StoredNext(w.job.ID) :
                        j.Attempts = w.job.Attempts /\ j.RunAt = w.job.RunAt

\* C12 as stated: when a worker has finished dispatching a job the bookkeeping matches
\* the send outcome: ok -> result success and the job absent from the store;
\* skipped-duplicate -> result skipped and the job absent; failure -> result failed, the
\* stored job's attempt counter one higher than before, the job in the store with
\* unchanged run_at.
C12_Original == [][DispatchBookkeeping]_vars

-----------------------------------------------------------------------------
(* SpecLifecycle: one caller calls Start and Stop on a Scheduler, one call after the
   other. The ticker loop started by Start is a goroutine at its select; the goroutines
   of the jobs are those of SpecSched *)

\* the Start calls of a behaviour that start a loop
MaxLoops == 2

\* the ticks of a behaviour
MaxLifeTicks == 2

\* the job goroutines at work at the same time
MaxLifeFlight == 2

LifeDefs == {defChain}

\* the ticker loop number n, at its select
Loop(n) ==
    [wid |-> <<0, Digits(n)>>, job |-> <<>>, pc |-> "select", op |-> "", status |-> "",
     snap |-> <<>>, hdf |-> FALSE]

\* the goroutines of jobs
JobWorkers == {w \in procs : w.pc # "select"}

InitLifecycle ==
    /\ now = Epoch
    /\ sendLog = <<>>
    /\ ResolveIdle
    /\ DedupIdle
    /\ calls = <<>>
    /\ SchedIdle
    /\ \E base \in SchedBases :
          \E r \in UNION {ScheduleGenericWorkflow(<<>>, 0, base, def, Epoch) : def \in LifeDefs} :
              jobsFile = r.store /\ idSeq = r.n

\* Start, from entry to return: an error when the scheduler is running, else running is
\* set, the WaitGroup counts the loop and the loop is launched
Start ==
    /\ sched.ctl = "idle"
    /\ IF sched.running
       THEN /\ sched.last # "start-error"
            /\ sched' = [sched EXCEPT !.last = "start-error"]
            /\ procs' = procs
       ELSE /\ sched.loops < MaxLoops
            /\ sched' = [sched EXCEPT !.running = TRUE, !.wg = @ + 1, !.loops = @ + 1,
                                      !.last = "start"]
            /\ procs' = procs \cup {Loop(sched.loops + 1)}
    /\ UNCHANGED <<now, sendLog, resolveVars, dedupVars, calls, storeVars, jobResults>>

\* Stop up to wg.Wait: nothing when the scheduler is not running; else running is reset
\* and the stop channel is closed, which panics when it is closed already and ends the
\* process
Stop ==
    /\ sched.ctl = "idle"
    /\ IF ~sched.running
       THEN /\ sched.last # "stop-noop"
            /\ sched' = [sched EXCEPT !.last = "stop-noop"]
            /\ procs' = procs
       ELSE IF sched.closed
       THEN /\ sched' = [sched EXCEPT !.running = FALSE, !.ctl = "panic", !.last = "stop-panic"]
            /\ procs' = {}
       ELSE /\ sched' = [sched EXCEPT !.running = FALSE, !.closed = TRUE, !.ctl = "wait"]
            /\ procs' = procs
    /\ UNCHANGED <<now, sendLog, resolveVars, dedupVars, calls, storeVars, jobResults>>

\* mutant of wgWait: Stop does not wait
wgWait_skipped == TRUE

\* s.wg.Wait() can return
wgWait == sched.wg = 0

\* Stop returns from wg.Wait
StopReturn ==
    /\ sched.ctl = "wait"
    /\ wgWait
    /\ sched' = [sched EXCEPT !.ctl = "idle", !.last = "stop", !.stopTicks = Len(calls),
                              !.stopLoops = sched.loops]
    /\ UNCHANGED <<now, sendLog, resolveVars, dedupVars, calls, storeVars, jobResults, procs>>

\* the loop's select takes the stop channel, which is closed: runLoop returns
LoopStop ==
    /\ sched.closed
    /\ \E l \in procs :
          /\ l.pc = "select"
          /\ procs' = procs \ {l}
          /\ sched' = wgDone(TRUE)
    /\ UNCHANGED <<now, sendLog, resolveVars, dedupVars, calls, storeVars, jobResults>>

\* the loop's select takes a tick (the stop channel may be closed as well): one goroutine
\* per job of ListDue(now)
LoopTick ==
    /\ Len(calls) < MaxLifeTicks
    /\ \E l \in procs :
          /\ l.pc = "select"
          /\ \E jobs \in ListDue(now) :
                /\ Cardinality(JobWorkers) + Len(jobs) <= MaxLifeFlight
                /\ procs' = procs \cup {Worker(Len(calls) + 1, jobs[k]) : k \in DOMAIN jobs}
                /\ calls' = Append(calls, [op |-> "tick", at |-> now, loop |-> l.wid[2],
                                           due |-> {jobs[k].ID : k \in DOMAIN jobs},
                                           results |-> DOMAIN jobResults, waited |-> {}])
                /\ sched' = [sched EXCEPT !.wg = @ + Len(jobs)]
    /\ UNCHANGED <<now, sendLog, resolveVars, dedupVars, storeVars, jobResults>>

NextLifecycle ==
    \/ Start \/ Stop \/ StopReturn \/ LoopStop \/ LoopTick
    \/ WorkerCheck \/ WorkerSend \/ WorkerRecord \/ WorkerLoad \/ WorkerPersist

SpecLifecycle == InitLifecycle /\ [][NextLifecycle]_vars

-----------------------------------------------------------------------------
(* claims about Start and Stop, checked under SpecLifecycle *)

\* the step with which Stop returns after it stopped a running scheduler is taken when
\* no loop and no job goroutine is left
StopReturnsDrained ==
    (sched.ctl = "wait" /\ sched'.ctl = "idle") => (procs = {} /\ procs' = {} /\ sched.wg = 0)

\* between the return of Stop and the next Start there is no goroutine
StoppedMeansNone == (sched.ctl = "idle" /\ ~sched.running) => procs = {}

\* every tick taken after Stop last returned is a tick of a loop started after that
TicksAfterStopAreNewLoops ==
    \A k \in DOMAIN calls :
        k > sched.stopTicks => \E n \in (sched.stopLoops + 1)..sched.loops : calls[k].loop = Digits(n)

\* C13: a Stop() that stops a running scheduler returns only after the ticker loop has
\* exited and every job worker in flight has finished; when it has returned no worker is
\* running, and the loop it stopped launches no worker any more.
C13_StopDrains ==
    /\ [][StopReturnsDrained]_vars
    /\ []StoppedMeansNone
    /\ []TicksAfterStopAreNewLoops

\* C13 witness: Stop has returned; before that the loop had taken a tick with the stop
\* channel closed already or open, and its workers have recorded results
C13_Witness ==
    /\ sched.last = "stop" /\ sched.ctl = "idle" /\ ~sched.running
    /\ sched.stopLoops = 1 /\ sched.stopTicks >= 1
    /\ procs = {}
    /\ DOMAIN jobResults # {}

-----------------------------------------------------------------------------
(* the dry run, checked under SpecSend *)

\* the call this step adds
NewCall == calls'[Len(calls')]

\* this step is a sendEmail call on a dry-run message that is not reported a duplicate
DryRunCall ==
    /\ Len(calls') = Len(calls) + 1
    /\ NewCall.msg.DryRun
    /\ NewCall.result # "skipped-duplicate"

\* no sender invoked, no SendLogEntry appended, no dedup key marked (the process may
\* have loaded the store file into its cache)
DryRunFrame ==
    /\ NewCall.sent = 0
    /\ sendLog' = sendLog
    /\ dedupFile' = dedupFile
    /\ dedupCache' \in {dedupCache, dedupFile}

\* C14 as stated: a Send of a message with DryRun true that is not a recorded duplicate
\* returns ok, invokes no sender, appends no SendLogEntry and marks no dedup key.
C14_Original == [][DryRunCall => (NewCall.result = "ok" /\ DryRunFrame)]_vars

\* C14: a Send of a message with DryRun true that is not a recorded duplicate invokes no
\* sender, appends no SendLogEntry and marks no dedup key; it returns ok when the
\* placeholder resolution of step 1 succeeds, and the failure of that step otherwise.
C14_DryRun ==
    [][DryRunCall =>
         /\ DryRunFrame
         /\ NewCall.result = IF prepareSendConfig(NewCall.msg, now).ok THEN "ok" ELSE "failure"]_vars

\* C14 witness: after a real send was logged and its key marked, a dry run of the same
\* content under another step label returns ok and leaves the log and the store as
\* they were
C14_Witness ==
    /\ Len(calls) = 2
    /\ calls[1].msg = msgOnce /\ calls[1].result = "ok"
    /\ calls[2].msg = msgDry /\ calls[2].result = "ok"
    /\ calls[2].key # <<>> /\ calls[2].key # calls[1].key
    /\ calls[2].key \notin DOMAIN dedupFile
    /\ Len(sendLog) = calls[1].logAfter
    /\ DOMAIN dedupFile = {calls[1].key}

-----------------------------------------------------------------------------
(* jitterBackoff. int and time.Duration are two's-complement integers of one width, 64
   bits on the platforms the program is built for; the model keeps the arithmetic and
   takes a narrower width, with durations counted in seconds *)

\* the width of int, int64 and time.Duration
IntBits == 8

MaxInt == 2^(IntBits - 1) - 1
MinInt == -(2^(IntBits - 1))

\* the value an integer operation leaves in IntBits bits
wrapInt(x) == ((x + 2^(IntBits - 1)) % 2^IntBits) - 2^(IntBits - 1)

\* 1 << n for n >= 0: zero once the bit is shifted out
shl1(n) == IF n >= IntBits THEN 0 ELSE wrapInt(2^n)

\* 2 * time.Second
defaultBase == 2

\* upper as jitterBackoff has it before the draw
jitterUpper(attempt, base, maxDelay) ==
    LET b      == IF base <= 0 THEN defaultBase ELSE base
        factor == shl1(attempt - 1)
        upper  == wrapInt(factor * b)
    IN  IF maxDelay > 0 /\ upper > maxDelay THEN maxDelay ELSE upper

\* mrand.Int63n(n): panics unless n > 0, else any of 0..n-1
Int63n(n) ==
    IF n <= 0 THEN {[panic |-> TRUE, delay |-> 0]}
    ELSE {[panic |-> FALSE, delay |-> j] : j \in 0..(n - 1)}

\* jitterBackoff from the test of upper on: the outcomes the draw can have
jitterDraw(upper) ==
    IF upper <= 0 THEN {[panic |-> FALSE, delay |-> 0]}
    ELSE Int63n(wrapInt(upper + 1))

\* jitterBackoff(attempt, base, maxDelay) for attempt >= 1
jitterBackoff(attempt, base, maxDelay) == jitterDraw(jitterUpper(attempt, base, maxDelay))

\* the attempts, bases and caps jitterBackoff is called with
JitterAttempts == 1..(IntBits + 2)
JitterBases == {-1, 0, 1, 2, 3, 5, 2^(IntBits - 2), MaxInt - 1, MaxInt}
JitterCaps == {MinInt, -1, 0, 1, 3, 10, MaxInt}

InitJitter ==
    /\ now = Epoch
    /\ sendLog = <<>>
    /\ ResolveIdle
    /\ DedupIdle
    /\ StoreIdle
    /\ SchedIdle
    /\ \E a \in JitterAttempts, b \in JitterBases, c \in JitterCaps :
          calls = <<[op |-> "input", attempt |-> a, base |-> b, cap |-> c]>>

\* one call of jitterBackoff on the inputs
JitterCall ==
    /\ Len(calls) = 1
    /\ \E r \in jitterBackoff(calls[1].attempt, calls[1].base, calls[1].cap) :
          calls' = Append(calls, [op |-> "jitterBackoff", panic |-> r.panic, delay |-> r.delay])
    /\ UNCHANGED <<now, sendLog, resolveVars, dedupVars, storeVars, schedVars>>

NextJitter == JitterCall

SpecJitter == InitJitter /\ [][NextJitter]_vars

-----------------------------------------------------------------------------
(* the backoff bound, checked under SpecJitter *)

\* b * 2^(a-1) over the integers, b <= 0 replaced by the default
JitterProduct(a, b) == (IF b <= 0 THEN defaultBase ELSE b) * 2^(a - 1)

\* min(c, b * 2^(a-1)), with c = 0 for no cap
JitterBoundStated(a, b, c) ==
    IF c = 0 THEN JitterProduct(a, b)
    ELSE IF c < JitterProduct(a, b) THEN c ELSE JitterProduct(a, b)

\* the same with every c <= 0 for no cap
JitterBoundCoded(a, b, c) ==
    IF c <= 0 THEN JitterProduct(a, b)
    ELSE IF c < JitterProduct(a, b) THEN c ELSE JitterProduct(a, b)

\* C15 as stated: for every attempt a >= 1, base b and cap c, FullJitter(a, b, c)
\* returns a delay in [0, min(c, b*2^(a-1))], b <= 0 replaced by 2 s and c = 0 meaning
\* no cap; the delay is never negative, also when 2^(a-1) or b*2^(a-1) overflows.
C15_Original ==
    Len(calls) = 2 =>
        /\ ~calls[2].panic
        /\ calls[2].delay >= 0
        /\ calls[2].delay <= JitterBoundStated(calls[1].attempt, calls[1].base, calls[1].cap)

\* what does hold of jitterBackoff: a call that returns gives a delay in
\* [0, min(c, b*2^(a-1))] with every c <= 0 meaning no cap, and the only calls that
\* do not return are those whose upper bound is the largest integer
JitterBoundUnlessPanic ==
    Len(calls) = 2 =>
        IF calls[2].panic
        THEN jitterUpper(calls[1].attempt, calls[1].base, calls[1].cap) = MaxInt
        ELSE /\ calls[2].delay >= 0
             /\ calls[2].delay <= JitterBoundCoded(calls[1].attempt, calls[1].base, calls[1].cap)

\* a call with the largest base and no cap has panicked in the draw
JitterPanicReached ==
    /\ Len(calls) = 2 /\ calls[2].panic
    /\ calls[1].attempt = 1 /\ calls[1].base = MaxInt /\ calls[1].cap = 0

-----------------------------------------------------------------------------
(* ListDue and the operations on an id that is not stored, checked under SpecStore *)

\* the jobs of the array that are due at instant t
DueSet(jobs, t) == {jobs[i] : i \in {k \in DOMAIN jobs : jobs[k].RunAt <= t}}

\* the list holds exactly the jobs of the array due at t, each once, in ascending RunAt
ExactlyDueAscending(list, jobs, t) ==
    /\ Range(list) = DueSet(jobs, t)
    /\ Len(list) = Cardinality({k \in DOMAIN jobs : jobs[k].RunAt <= t})
    /\ \A i, j \in DOMAIN list : i < j => list[i].RunAt <= list[j].RunAt

\* C16: ListDue(before) returns exactly the stored jobs whose run_at <= before, none
\* with a later run_at and none left out, in ascending order of run_at.
C16_ListDueExact ==
    \A k \in DOMAIN calls :
        calls[k].op = "ListDue" => ExactlyDueAscending(calls[k].jobs, calls[k].before, calls[k].arg)

\* C16 witness: of three stored jobs ListDue returned two, one of them running at the
\* very instant asked for, and left out the one that runs later
C16_Witness ==
    /\ Len(calls) > 0 /\ LastCall.op = "ListDue"
    /\ Len(LastCall.before) = 3 /\ Len(LastCall.jobs) = 2
    /\ LastCall.jobs[1].RunAt < LastCall.jobs[2].RunAt
    /\ LastCall.jobs[2].RunAt = LastCall.arg
    /\ \E i \in DOMAIN LastCall.before : LastCall.before[i].RunAt > LastCall.arg

\* the array has no job with the id of the call's job
IdNotStored(c) == \A i \in DOMAIN c.before : c.before[i].ID # c.job.ID

\* C17: Update(job) and Delete(id) return an error when no stored job has that id, and
\* the stored array is what it was.
C17_NotFound ==
    (Len(calls) > 0 /\ LastCall.op \in {"Update", "Delete"} /\ IdNotStored(LastCall)) =>
        (~LastCall.ok /\ jobsFile = LastCall.before)

\* C17 witness: a job was added and deleted, and the Update of it that followed found
\* another job in the store but not this one; or the same with a Delete
C17_Witness ==
    /\ Len(calls) = 3
    /\ calls[1].op = "Add"
    /\ \/ /\ calls[2].op = "Delete" /\ calls[2].ok
          /\ LastCall.op = "Delete" /\ LastCall.job.ID = calls[2].job.ID
       \/ /\ calls[2].op = "Add"
          /\ LastCall.op = "Update" /\ LastCall.job = [strangerJob EXCEPT !.Attempts = 1]
          /\ Len(jobsFile) = 2
    /\ ~LastCall.ok
    /\ jobsFile = LastCall.before

-----------------------------------------------------------------------------
(* the route loop, checked under SpecResolve *)

\* route i of the configuration matches and none of its limits is reached
Qualifies(cfg, i) ==
    routeMatches(cfg, cfg.ProviderRoutes[i]) /\ ~RouteExhausted(cfg.ProviderRoutes[i])

\* the first such route in declaration order, 0 when there is none
FirstQualifying(cfg) ==
    IF \E i \in DOMAIN cfg.ProviderRoutes : Qualifies(cfg, i)
    THEN CHOOSE i \in DOMAIN cfg.ProviderRoutes :
            Qualifies(cfg, i) /\ \A j \in 1..(i - 1) : ~Qualifies(cfg, j)
    ELSE 0

\* the provider list a route declares: its ProviderPriority, else its single Provider
DeclaredList(r) ==
    IF r.ProviderPriority # <<>> THEN r.ProviderPriority
    ELSE IF r.Provider # <<>> THEN <<r.Provider>>
    ELSE <<>>

\* the list followed by p if p is not in it
FollowedBy(list, p) == IF p \in Range(list) THEN list ELSE Append(list, p)

\* the names of a list, lowercased and trimmed, without the blank ones
NamesOf(list) == {NormName(list[i]) : i \in DOMAIN list} \ {<<>>}

\* C18 as stated: with ProviderPriority empty, Resolve uses the first route in
\* declaration order that matches and is not exhausted; the result is that route's
\* provider list followed by M.Provider if not already present, later routes are not
\* consulted, and if no route qualifies the result is [M.Provider].
C18_Original ==
    rdone /\ rcfg.ProviderPriority = <<>> =>
        rout = IF FirstQualifying(rcfg) = 0 THEN <<rcfg.Provider>>
               ELSE FollowedBy(DeclaredList(rcfg.ProviderRoutes[FirstQualifying(rcfg)]), rcfg.Provider)

\* the result consists of the names the route declares (lowercased, trimmed, blank
\* names and repeats dropped) and of a non-empty M.Provider, which comes last unless the
\* route declares it; a route that declares one name has it first; a route that declares
\* no name leaves [M.Provider]
BuiltFrom(list, provider) ==
    /\ NoDuplicates(rout)
    /\ IF NamesOf(list) = {} THEN rout = <<provider>>
       ELSE Range(rout) = NamesOf(list) \cup ({provider} \ {<<>>})
    /\ (provider # <<>> /\ provider \notin NamesOf(list)) => rout[Len(rout)] = provider
    /\ Len(list) = 1 /\ NamesOf(list) # {} => rout[1] = NormName(list[1])

\* C18: with ProviderPriority empty, Resolve uses the first route in declaration order
\* that matches and is not exhausted: the result is what Resolve gives with that route
\* alone (no other route, before or after it, has a part in it), and it consists of the
\* route's provider names, lowercased and trimmed without blanks and repeats, in the
\* usage-aware order when there are two or more, followed by a non-empty M.Provider if
\* not already present; if no route qualifies the result is [M.Provider].
C18_FirstUsableRoute ==
    rdone /\ rcfg.ProviderPriority = <<>> =>
        IF FirstQualifying(rcfg) = 0 THEN rout = <<rcfg.Provider>>
        ELSE /\ rout = resolveProviders(
                          [rcfg EXCEPT !.ProviderRoutes = <<rcfg.ProviderRoutes[FirstQualifying(rcfg)]>>])
             /\ BuiltFrom(DeclaredList(rcfg.ProviderRoutes[FirstQualifying(rcfg)]), rcfg.Provider)

\* C18 witness: the first route matches by the subject and has room, the second one
\* matches by the recipient and has room as well; the first alone decides
C18_Witness ==
    /\ rdone
    /\ rcfg.ProviderPriority = <<>>
    /\ rcfg.ProviderRoutes = <<routeSubjWeekly, routeToHourly>>
    /\ Qualifies(rcfg, 1) /\ Qualifies(rcfg, 2)
    /\ rcfg.Provider = strSmtp
    /\ rout = <<strMailgun, strSmtp>>

\* M satisfies one of the conditions the route has: a to-domain of the route is the
\* domain of a recipient, a from-domain is the domain of the sender, or the subject
\* regex compiles and matches the subject
SatisfiesCondition(cfg, r) ==
    \/ \E i \in DOMAIN cfg.To : \E t \in DOMAIN r.ToDomains :
          ToLower(TrimSpace(r.ToDomains[t])) = ToLower(extractDomain(splitAddress(cfg.To[i])))
    \/ \E f \in DOMAIN r.FromDomains :
          ToLower(TrimSpace(r.FromDomains[f])) = ToLower(extractDomain(splitAddress(cfg.From)))
    \/ r.SubjectRegex # <<>> /\ RegexMatches(r.SubjectRegex, cfg.Subject)

\* the routes of the list that M satisfies a condition of
RECURSIVE DropUnmatched(_, _)
DropUnmatched(cfg, routes) ==
    IF routes = <<>> THEN <<>>
    ELSE IF SatisfiesCondition(cfg, Head(routes))
    THEN <<Head(routes)>> \o DropUnmatched(cfg, Tail(routes))
    ELSE DropUnmatched(cfg, Tail(routes))

\* C19: a route none of whose to-domain, from-domain or subject-regex conditions is
\* satisfied by M, and so a route with no condition at all, has no influence on
\* Resolve(M): the result is what it is without these routes.
C19_UnmatchedRoutesAbsent ==
    rdone => rout = resolveProviders([rcfg EXCEPT !.ProviderRoutes = DropUnmatched(rcfg, @)])

\* C19 witness: a route with no condition stands before a route that M does not match
\* either; neither of their providers is in the result
C19_Witness ==
    /\ rdone
    /\ rcfg.ProviderRoutes = <<routeNoCond, routeToDaily>>
    /\ rcfg.To = <<addrOther>>
    /\ rcfg.ProviderPriority = <<>>
    /\ DropUnmatched(rcfg, rcfg.ProviderRoutes) = <<>>
    /\ rout = <<rcfg.Provider>>

-----------------------------------------------------------------------------
(* SpecSelect: resolveProviders on one matching route with two candidates of equal
   weight, cost and capacity, over drawn send logs *)

strRelay  == <<"r","e","l","a","y">>
strBackup == <<"b","a","c","k","u","p">>

\* gmail.com -> relay or backup, which have no provider defaults and no overrides: the
\* default window of 24 h and the default half-life
routePair == [Route0 EXCEPT !.ToDomains = <<domGmail>>, !.ProviderPriority = <<strRelay, strBackup>>]
\* the same over a selection window of one hour
routePairHour == [routePair EXCEPT !.SelectionWindow = Hour]
\* the same with a recency half-life of one minute
routePairShort == [routePairHour EXCEPT !.RecencyHalfLife = 1]

SelectRoutes == {routePair, routePairHour, routePairShort}

SelectEntries ==
    { LogEntry(0, strRelay, TRUE, <<addrGmail>>),
      LogEntry(Hour, strRelay, TRUE, <<addrGmail>>),
      LogEntry(2 * Hour, strRelay, TRUE, <<addrGmail>>),
      LogEntry(25 * Hour, strRelay, TRUE, <<addrGmail>>),
      LogEntry(0, strRelay, FALSE, <<addrGmail>>),
      LogEntry(0, strRelay, TRUE, <<addrOther>>),
      LogEntry(0, strBackup, TRUE, <<addrGmail>>),
      LogEntry(Hour, strBackup, TRUE, <<addrGmail>>) }

\* the longest send log the selection starts from
MaxSelectLog == 2

InitSelect ==
    /\ now = Epoch
    /\ sendLog \in SeqsUpTo(SelectEntries, MaxSelectLog)
    /\ \E r \in SelectRoutes :
          rcfg = [Config0 EXCEPT !.To = <<addrGmail>>, !.ProviderRoutes = <<r>>]
    /\ rout = <<>>
    /\ rdone = FALSE
    /\ heap = <<>>
    /\ DedupIdle /\ SendIdle /\ StoreIdle /\ SchedIdle

NextSelect == ResolveCall

SpecSelect == InitSelect /\ [][NextSelect]_vars

-----------------------------------------------------------------------------
(* least-used selection, checked under SpecSelect *)

\* the route's selection window, 24 h when it sets none
WindowOf(r) == IF r.SelectionWindow > 0 THEN r.SelectionWindow ELSE 24 * Hour

\* the half-life the route's scores decay with
HalfLifeOf(r) ==
    IF r.RecencyHalfLife > 0 THEN r.RecencyHalfLife
    ELSE IF WindowOf(r) \div 4 < Hour THEN Hour ELSE WindowOf(r) \div 4

\* the successful entries of provider p inside the route's selection window
UsageEntries(p, r) ==
    { i \in DOMAIN sendLog :
        /\ sendLog[i].Success
        /\ NormName(sendLog[i].Provider) = p
        /\ sendLog[i].Timestamp >= now - WindowOf(r) }

\* where p stands in the result
PosIn(list, p) == CHOOSE i \in DOMAIN list : list[i] = p

\* p stands before q in the result
Before(p, q) ==
    /\ p \in Range(rout) /\ q \in Range(rout)
    /\ PosIn(rout, p) < PosIn(rout, q)

TheRoute == rcfg.ProviderRoutes[1]

\* C20 as stated: for a matching route with two candidates of equal weight, cost and
\* capacity, a candidate with no successful send-log entry inside the route's selection
\* window (default 24 h) is ordered before a candidate that has at least one; entries
\* older than the window do not count.
C20_Original ==
    rdone =>
        \A p, q \in {strRelay, strBackup} :
            (UsageEntries(p, TheRoute) = {} /\ UsageEntries(q, TheRoute) # {}) => Before(p, q)

\* what does hold: a candidate with no successful entry to the route's to-domains inside
\* the window is ordered before a candidate that has one which is no older than ten
\* half-lives
LeastUsedUnlessFaded ==
    rdone =>
        \A p, q \in {strRelay, strBackup} :
            (/\ \A i \in UsageEntries(p, TheRoute) : ~EntryInToDomains(sendLog[i], TheRoute)
             /\ \E i \in UsageEntries(q, TheRoute) :
                   /\ EntryInToDomains(sendLog[i], TheRoute)
                   /\ now - sendLog[i].Timestamp <= 10 * HalfLifeOf(TheRoute))
            => Before(p, q)

\* the used candidate is ordered first: relay's only entry, to gmail.com and inside the
\* window of one hour, is sixty half-lives old, and backup has none
FadedUsageReached ==
    /\ rdone
    /\ TheRoute = routePairShort
    /\ sendLog = <<LogEntry(Hour, strRelay, TRUE, <<addrGmail>>)>>
    /\ rout = <<strRelay, strBackup, strSmtp>>

-----------------------------------------------------------------------------
(* SpecPriority: resolveProviders on explicit priority lists of two and more entries,
   with and without a matching route that carries selection metadata *)

\* gmail.com -> no provider of its own; sendgrid and mailgun both cost 2.0 on this route
routeCostOverride ==
    [Route0 EXCEPT !.ToDomains = <<domGmail>>,
                   !.ProviderCostOverrides = (strSendgrid :> 20) @@ (strMailgun :> 20)]

PriorityRoutes == {<<>>, <<routeCostOverride>>, <<routePairHour>>}

ExplicitLists ==
    { <<strRelay, strBackup>>, <<strBackup, strRelay>>, <<strBackup, strSmtp, strRelay>>,
      <<strSendgrid, strMailgun>>, <<strMailgun, strSendgrid>> }

PriorityEntries ==
    { LogEntry(0, strRelay, TRUE, <<addrGmail>>),
      LogEntry(0, strBackup, TRUE, <<addrGmail>>),
      LogEntry(2 * Hour, strRelay, TRUE, <<addrGmail>>),
      LogEntry(0, strSendgrid, TRUE, <<addrGmail>>),
      LogEntry(0, strMailgun, FALSE, <<addrGmail>>) }

\* the longest send log the priority lists are resolved over
MaxPriorityLog == 2

InitPriority ==
    /\ now = Epoch
    /\ sendLog \in SeqsUpTo(PriorityEntries, MaxPriorityLog)
    /\ \E pp \in ExplicitLists, rl \in PriorityRoutes :
          rcfg = [Config0 EXCEPT !.To = <<addrGmail>>, !.ProviderPriority = pp,
                                 !.ProviderRoutes = rl]
    /\ rout = <<>>
    /\ rdone = FALSE
    /\ heap = <<>>
    /\ DedupIdle /\ SendIdle /\ StoreIdle /\ SchedIdle

NextPriority == ResolveCall

SpecPriority == InitPriority /\ [][NextPriority]_vars

-----------------------------------------------------------------------------
(* the explicit priority list and the ties of the scorer, checked under SpecPriority *)

\* the route whose metadata the scorer takes for an explicit list: the first matching
\* route if it carries any, else none
MetaRoute(cfg) ==
    IF findFirstMatchingRoute(cfg) # 0 /\ routeHasSelectionMeta(cfg.ProviderRoutes[findFirstMatchingRoute(cfg)])
    THEN cfg.ProviderRoutes[findFirstMatchingRoute(cfg)]
    ELSE Route0

\* cost[p] in tenths: the route's override, else the provider default, else 1.0
CostOf(p, r) ==
    IF MapGet(r.ProviderCostOverrides, p) > 0 THEN r.ProviderCostOverrides[p]
    ELSE IF p \in DOMAIN providerDefaults /\ providerDefaults[p].Cost > 0 THEN providerDefaults[p].Cost
    ELSE 10

\* cap[p]: the route's override, else the provider default, else 0
CapacityOf(p, r) ==
    IF MapGet(r.ProviderCapacities, p) > 0 THEN r.ProviderCapacities[p]
    ELSE IF p \in DOMAIN providerDefaults THEN providerDefaults[p].Capacity
    ELSE 0

\* the score the scorer gives entry i of the explicit list
ScoreOf(cfg, i) ==
    LET r   == MetaRoute(cfg)
        win == WindowOf(r)
    IN  providerScore(cfg.ProviderPriority, i, r.ToDomains, win, r.ProviderWeights,
                      HalfLifeOf(r), r.ProviderCapacities, r.ProviderCostOverrides)

\* the entries of the explicit list have equal scores, costs and capacities
AllEqual(cfg) ==
    \A i, j \in DOMAIN cfg.ProviderPriority :
        /\ ScoreOf(cfg, i) = ScoreOf(cfg, j)
        /\ CostOf(NormName(cfg.ProviderPriority[i]), MetaRoute(cfg))
              = CostOf(NormName(cfg.ProviderPriority[j]), MetaRoute(cfg))
        /\ CapacityOf(NormName(cfg.ProviderPriority[i]), MetaRoute(cfg))
              = CapacityOf(NormName(cfg.ProviderPriority[j]), MetaRoute(cfg))

\* the names of the explicit list stand in the result in the order of the list
InInputOrder(cfg) ==
    \A i, j \in DOMAIN cfg.ProviderPriority :
        (i < j /\ NormName(cfg.ProviderPriority[i]) # NormName(cfg.ProviderPriority[j]))
            => Before(NormName(cfg.ProviderPriority[i]), NormName(cfg.ProviderPriority[j]))

\* C21 as stated: when ProviderPriority has two or more entries whose usage scores,
\* costs and capacities are all equal, Resolve returns them in the explicit input order.
C21_Original ==
    (rdone /\ Len(rcfg.ProviderPriority) >= 2 /\ AllEqual(rcfg)) => InInputOrder(rcfg)

\* the provider defaults of the entries have equal costs and capacities
DefaultsEqual(cfg) ==
    \A i, j \in DOMAIN cfg.ProviderPriority :
        /\ CostOf(NormName(cfg.ProviderPriority[i]), Route0) = CostOf(NormName(cfg.ProviderPriority[j]), Route0)
        /\ CapacityOf(NormName(cfg.ProviderPriority[i]), Route0)
              = CapacityOf(NormName(cfg.ProviderPriority[j]), Route0)

\* what does hold: entries of equal scores whose provider defaults have equal costs and
\* capacities come in the input order
InputOrderOnDefaultTies ==
    (rdone /\ Len(rcfg.ProviderPriority) >= 2 /\ AllEqual(rcfg) /\ DefaultsEqual(rcfg))
        => InInputOrder(rcfg)

\* the tie of sendgrid and mailgun, both at the route's cost of 2.0 and with nothing in
\* the log, went to mailgun, the second of the list
DefaultCostTieBreakReached ==
    /\ rdone
    /\ rcfg.ProviderPriority = <<strSendgrid, strMailgun>>
    /\ rcfg.ProviderRoutes = <<routeCostOverride>>
    /\ sendLog = <<>>
    /\ AllEqual(rcfg)
    /\ rout = <<strMailgun, strSendgrid, strSmtp>>

\* three entries of equal scores, one usage each for relay and backup, came in the input
\* order
EqualUsageInputOrderReached ==
    /\ rdone
    /\ rcfg.ProviderPriority = <<strBackup, strRelay>>
    /\ Len(sendLog) = 2 /\ AllEqual(rcfg)
    /\ rout = <<strBackup, strRelay, strSmtp>>

-----------------------------------------------------------------------------
(* the batch optimizer: GreedyBatchOptimizer.AllocateJobs *)

\* the bytes job ids are made of, in byte order
idBytes == <<"0","1","2","3","4","5","6","7","8","9","b","j","o">>

byteOf(c) == CHOOSE k \in DOMAIN idBytes : idBytes[k] = c

\* a < b on Go strings: byte-wise lexicographic
RECURSIVE stringLess(_, _)
stringLess(a, b) ==
    IF b = <<>> THEN FALSE
    ELSE IF a = <<>> THEN TRUE
    ELSE IF Head(a) # Head(b) THEN byteOf(Head(a)) < byteOf(Head(b))
    ELSE stringLess(Tail(a), Tail(b))

\* the candidates of a job before any reordering: the explicit priority list, else the
\* first matching route's list, else the config's provider when it has one
routeCandidates(r) ==
    IF Len(r.ProviderPriority) > 0 THEN r.ProviderPriority
    ELSE IF r.Provider # <<>> THEN <<r.Provider>>
    ELSE <<>>

candidatesAt(cfg, ri) == IF ri = 0 THEN <<>> ELSE routeCandidates(cfg.ProviderRoutes[ri])

orProvider(cfg, c) == IF Len(c) = 0 /\ cfg.Provider # <<>> THEN <<cfg.Provider>> ELSE c

deriveCandidates(cfg) ==
    IF Len(cfg.ProviderPriority) > 0 THEN cfg.ProviderPriority
    ELSE orProvider(cfg, candidatesAt(cfg, findFirstMatchingRoute(cfg)))

\* newc: the entries of the route's priority list that are candidates, in the route's
\* order, then the candidates not among them
RECURSIVE appendLeftover(_, _)
appendLeftover(newc, c) ==
    IF c = <<>> THEN newc
    ELSE appendLeftover(IF Head(c) \in Range(newc) THEN newc ELSE Append(newc, Head(c)), Tail(c))

routeOrder(rp, c) == appendLeftover(SelectSeq(rp, LAMBDA p : p \in Range(c)), c)

\* the reordering of two and more candidates
orderInRoute(cfg, r, c) ==
    IF r.ProviderWeights # NoMap \/ r.ProviderCostOverrides # NoMap
    THEN sortProvidersByUsage(c, r.ToDomains, r.SelectionWindow, r.ProviderWeights,
                              r.RecencyHalfLife, r.ProviderCapacities, r.ProviderCostOverrides)
    ELSE IF Len(r.ProviderPriority) > 0 THEN routeOrder(r.ProviderPriority, c)
    ELSE IF Len(cfg.ProviderPriority) = 0
    THEN sortProvidersByUsage(c, <<>>, 0, NoMap, 0, NoMap, NoMap)
    ELSE c

orderAt(cfg, ri, c) ==
    IF Len(c) <= 1 THEN c
    ELSE IF ri # 0 THEN orderInRoute(cfg, cfg.ProviderRoutes[ri], c)
    ELSE IF Len(cfg.ProviderPriority) = 0
    THEN sortProvidersByUsage(c, <<>>, 0, NoMap, 0, NoMap, NoMap)
    ELSE c

orderCandidates(cfg, c) == orderAt(cfg, findFirstMatchingRoute(cfg), c)

\* jobWrap: a job and its ordered candidates
jobWrap(j) == [job |-> j, cands |-> orderCandidates(j.Config, deriveCandidates(j.Config))]

\* the comparator of the sort: fewer candidates first, then the lesser id
wrapLess(v, w) ==
    IF Len(v.cands) = Len(w.cands) THEN stringLess(v.job.ID, w.job.ID)
    ELSE Len(v.cands) < Len(w.cands)

\* sort.Slice(wrapped, wrapLess): not stable, so every order in which no entry is before
\* one it is greater than
RECURSIVE sortWrapped(_)
sortWrapped(ws) ==
    IF ws = <<>> THEN {<<>>}
    ELSE UNION { { <<ws[i]>> \o r : r \in sortWrapped(SubSeq(ws, 1, i - 1) \o SubSeq(ws, i + 1, Len(ws))) } :
                   i \in {k \in DOMAIN ws : \A j \in DOMAIN ws : ~wrapLess(ws[j], ws[k])} }

\* 1 << 30, the remaining capacity of a provider without a limit
unlimitedRem == 1073741824

\* cap of a candidate: the route's capacity when positive, else the provider default when
\* positive, else -1 (unlimited); the lookups take the candidate as it is written
capAt(cfg, ri, prov) ==
    IF ri # 0 /\ MapGet(cfg.ProviderRoutes[ri].ProviderCapacities, prov) > 0
    THEN cfg.ProviderRoutes[ri].ProviderCapacities[prov]
    ELSE IF prov \in DOMAIN providerDefaults /\ providerDefaults[prov].Capacity > 0
    THEN providerDefaults[prov].Capacity
    ELSE -1

capOf(cfg, prov) == capAt(cfg, findFirstMatchingRoute(cfg), prov)

\* remCap[prov] after the loop over the candidates, 0 for a provider that is not eligible
remOf(cap, used) ==
    IF cap < 0 THEN unlimitedRem
    ELSE IF cap - used > 0 THEN cap - used
    ELSE 0

remCap(cfg, counts, prov) == remOf(capOf(cfg, prov), MapGet(counts, prov))

\* eligible: the candidates under capacity, in candidate order
eligible(cfg, counts, cands) == SelectSeq(cands, LAMBDA p : remCap(cfg, counts, p) > 0)

\* cost of a provider in the fallback: the provider default when positive, else 1.0
fallbackCost(prov) ==
    IF prov \in DOMAIN providerDefaults /\ providerDefaults[prov].Cost > 0
    THEN providerDefaults[prov].Cost ELSE 10

\* best: the eligible provider of the largest remaining capacity, the cheaper one and then
\* the earlier one among equals
better(prov, best, rem, bestRem) ==
    IF rem > bestRem \/ (rem = bestRem /\ fallbackCost(prov) < fallbackCost(best))
    THEN prov ELSE best

RECURSIVE bestEligible(_, _, _, _)
bestEligible(cfg, counts, best, rest) ==
    IF rest = <<>> THEN best
    ELSE bestEligible(cfg, counts,
                      better(Head(rest), best, remCap(cfg, counts, Head(rest)),
                             remCap(cfg, counts, best)),
                      Tail(rest))

\* mutant of chooseProvider: the first candidate, under capacity or not
chooseProvider_atCapacityToo(cfg, counts, cands) == cands[1]

\* chosen: the first candidate under capacity; an empty name there gives way to the best
\* eligible one and then to the first candidate; with nobody under capacity the first
\* candidate. Not called without candidates.
firstEligible(cfg, counts, cands, el) ==
    IF Len(el) > 0
    THEN IF el[1] # <<>> THEN el[1] ELSE bestEligible(cfg, counts, el[1], Tail(el))
    ELSE cands[1]

orFirst(cands, c1) == IF c1 = <<>> THEN cands[1] ELSE c1

chooseProvider(cfg, counts, cands) ==
    orFirst(cands, firstEligible(cfg, counts, cands, eligible(cfg, counts, cands)))

\* one round of the loop over the sorted jobs: a job without candidates is passed over, any
\* other job gets the provider chosen on the counts so far
assignStep(w, counts) ==
    IF Len(w.cands) = 0 THEN [chosen |-> <<>>, assigned |-> FALSE]
    ELSE [chosen |-> chooseProvider(w.job.Config, counts, w.cands), assigned |-> TRUE]

\* assign and counts after a round that took step st for job w
assignAfter(w, st, assign) == IF st.assigned THEN (w.job.ID :> st.chosen) @@ assign ELSE assign

countsAfter(st, counts) ==
    IF st.assigned THEN (st.chosen :> MapGet(counts, st.chosen) + 1) @@ counts ELSE counts

stepOf(w, st, counts) ==
    [ID |-> w.job.ID, Config |-> w.job.Config, cands |-> w.cands,
     counts |-> counts, chosen |-> st.chosen, assigned |-> st.assigned]

\* the loop over the sorted jobs: assign, counts and the steps taken (a step keeps the
\* counts its job found)
RECURSIVE assignLoop(_, _, _, _)

assignRound(w, st, rest, assign, counts, steps) ==
    assignLoop(rest, assignAfter(w, st, assign), countsAfter(st, counts),
               Append(steps, stepOf(w, st, counts)))

assignLoop(ws, assign, counts, steps) ==
    IF ws = <<>> THEN [assign |-> assign, counts |-> counts, steps |-> steps]
    ELSE assignRound(Head(ws), assignStep(Head(ws), counts), Tail(ws), assign, counts, steps)

\* AllocateJobs(jobs): the results the unstable sort allows
AllocateJobs(jobs) ==
    { assignLoop(ws, NoMap, NoMap, <<>>) : ws \in sortWrapped([i \in DOMAIN jobs |-> jobWrap(jobs[i])]) }

-----------------------------------------------------------------------------
(* SpecAllocate: one batch of jobs handed to AllocateJobs *)

\* the most jobs of a batch
MaxBatch == 3

AllocID(k) == strJob \o Digits(k)

\* gmail.com -> sendgrid then smtp, two sends per batch through sendgrid
routeCapacities ==
    [Route0 EXCEPT !.ToDomains = <<domGmail>>, !.ProviderPriority = <<strSendgrid, strSmtp>>,
                   !.ProviderCapacities = (strSendgrid :> 2) @@ (strSmtp :> 100)]
\* gmail.com -> sendgrid only, one send per batch
routeSingle ==
    [Route0 EXCEPT !.ToDomains = <<domGmail>>, !.ProviderPriority = <<strSendgrid>>,
                   !.ProviderCapacities = (strSendgrid :> 1)]
\* gmail.com -> sendgrid then smtp, smtp the cheaper one
routeCosts ==
    [Route0 EXCEPT !.ToDomains = <<domGmail>>, !.ProviderPriority = <<strSendgrid, strSmtp>>,
                   !.ProviderCostOverrides = (strSendgrid :> 20) @@ (strSmtp :> 10)]

cfgCapacities == [Config0 EXCEPT !.ProviderPriority = <<strSendgrid, strSmtp>>,
                                 !.ProviderRoutes = <<routeCapacities>>]
cfgRouteOnly  == [Config0 EXCEPT !.Provider = <<>>, !.ProviderRoutes = <<routeCapacities>>]
cfgSingle     == [Config0 EXCEPT !.ProviderRoutes = <<routeSingle>>]
cfgCosts      == [Config0 EXCEPT !.ProviderPriority = <<strSendgrid, strSmtp>>,
                                 !.ProviderRoutes = <<routeCosts>>]
cfgPlain      == [Config0 EXCEPT !.To = <<addrOther>>]
\* no priority list, no route, and the provider left to be inferred at send time
cfgInferred   == [Config0 EXCEPT !.To = <<addrOther>>, !.Provider = <<>>]

AllocConfigs == {cfgCapacities, cfgRouteOnly, cfgSingle, cfgCosts, cfgPlain, cfgInferred}

AllocLogs == {<<>>, <<LogEntry(0, strSmtp, TRUE, <<addrGmail>>)>>}

\* batches: up to MaxBatch jobs of distinct ids, the ids going up or going down
Batches ==
    UNION { { [i \in 1..n |-> [ID |-> AllocID(ids[i]), Config |-> cs[i]]] :
                ids \in {[i \in 1..n |-> i], [i \in 1..n |-> n + 1 - i]},
                cs \in [1..n -> AllocConfigs] } : n \in 0..MaxBatch }

InitAllocate ==
    /\ now = Epoch
    /\ sendLog \in AllocLogs
    /\ \E jobs \in Batches :
          calls = <<[op |-> "AllocateJobs", jobs |-> jobs, done |-> FALSE,
                     assign |-> NoMap, steps |-> <<>>]>>
    /\ ResolveIdle /\ DedupIdle /\ StoreIdle /\ SchedIdle

AllocCall ==
    /\ Len(calls) = 1 /\ ~calls[1].done
    /\ \E res \in AllocateJobs(calls[1].jobs) :
          calls' = <<[calls[1] EXCEPT !.done = TRUE, !.assign = res.assign, !.steps = res.steps]>>
    /\ UNCHANGED <<now, sendLog, resolveVars, dedupVars, storeVars, schedVars>>

NextAllocate == AllocCall

SpecAllocate == InitAllocate /\ [][NextAllocate]_vars

AllocDone == Len(calls) = 1 /\ calls[1].op = "AllocateJobs" /\ calls[1].done

\* C22 as stated: the returned map has one entry per job of the batch
C22_Original ==
    AllocDone => DOMAIN calls[1].assign = {calls[1].jobs[i].ID : i \in DOMAIN calls[1].jobs}

\* what the code keeps: every job that has a candidate gets one entry, its provider being
\* one of its candidates, and no other id gets one
EntryPerJobWithCandidates ==
    AllocDone =>
        /\ DOMAIN calls[1].assign =
              {calls[1].jobs[i].ID : i \in {k \in DOMAIN calls[1].jobs :
                                              deriveCandidates(calls[1].jobs[k].Config) # <<>>}}
        /\ \A i \in DOMAIN calls[1].jobs :
              calls[1].jobs[i].ID \in DOMAIN calls[1].assign =>
                  calls[1].assign[calls[1].jobs[i].ID] \in Range(deriveCandidates(calls[1].jobs[i].Config))

\* a batch in which a job without candidates was passed over beside an over-capacity one
JobWithoutCandidatesDropped ==
    /\ AllocDone
    /\ Len(calls[1].jobs) = 3
    /\ \E i \in DOMAIN calls[1].jobs : calls[1].jobs[i].Config = cfgInferred
    /\ Cardinality(DOMAIN calls[1].assign) = 2
    /\ \E s \in DOMAIN calls[1].steps :
          /\ calls[1].steps[s].assigned
          /\ remCap(calls[1].steps[s].Config, calls[1].steps[s].counts, calls[1].steps[s].chosen) = 0

\* the jobs of the batch that were given provider p before step s
CountBefore(s, p) ==
    Cardinality({t \in 1..(s - 1) : calls[1].steps[t].assigned /\ calls[1].steps[t].chosen = p})

\* provider p has a capacity for the job of step s and the batch has used it up
AtCapacity(s, p) ==
    /\ capOf(calls[1].steps[s].Config, p) >= 0
    /\ CountBefore(s, p) >= capOf(calls[1].steps[s].Config, p)

\* the jobs of the batch that ended on provider p
AssignedTo(p) == Cardinality({id \in DOMAIN calls[1].assign : calls[1].assign[id] = p})

Min(a, b) == IF a < b THEN a ELSE b

\* C23: a job goes to a provider at capacity only if all its candidates are at capacity;
\* of n jobs with candidates [sendgrid, smtp], 2 per batch for sendgrid and 100 for smtp,
\* min(n, 2) go to sendgrid and the others to smtp
C23_BatchCapacity ==
    AllocDone =>
        /\ \A s \in DOMAIN calls[1].steps :
              (calls[1].steps[s].assigned /\ AtCapacity(s, calls[1].steps[s].chosen))
                  => \A c \in Range(calls[1].steps[s].cands) : AtCapacity(s, c)
        /\ (\A i \in DOMAIN calls[1].jobs : calls[1].jobs[i].Config = cfgCapacities)
              => /\ AssignedTo(strSendgrid) = Min(Len(calls[1].jobs), 2)
                 /\ AssignedTo(strSmtp) = Len(calls[1].jobs) - Min(Len(calls[1].jobs), 2)

\* three identical jobs, the third one moved to smtp
C23_Witness ==
    /\ AllocDone
    /\ Len(calls[1].jobs) = 3
    /\ \A i \in DOMAIN calls[1].jobs : calls[1].jobs[i].Config = cfgCapacities
    /\ AssignedTo(strSendgrid) = 2 /\ AssignedTo(strSmtp) = 1
    /\ calls[1].steps[3].chosen = strSmtp /\ AtCapacity(3, strSendgrid)

\* a job kept on its only candidate although the batch has used that one up
OverCapacityReached ==
    /\ AllocDone
    /\ \E s \in DOMAIN calls[1].steps :
          /\ calls[1].steps[s].assigned
          /\ AtCapacity(s, calls[1].steps[s].chosen)

-----------------------------------------------------------------------------
(* SpecFallback: sendEmail on messages with several providers to fall back on *)

FallbackInputs ==
    { <<msgTwo, ctxWelcome>>, <<msgFallback, ctxWelcome>>, <<msgHostOnly, NilCtx>>,
      <<msgOnce, NilCtx>>, <<msgDry, NilCtx>>, <<msgMissing, NilCtx>>, <<msgNoHost, NilCtx>> }

FallbackCall == SendCallOf(FallbackInputs)

NextFallback == FallbackCall \/ SendAdvance \/ SendRestart

SpecFallback == InitSend /\ [][NextFallback]_vars

-----------------------------------------------------------------------------
(* the provider loop of sendEmail, call by call, checked under SpecFallback *)

\* what prepareSendConfig made of the call's message
Prepared(c) == prepareSendConfig(c.msg, c.at)

\* the call got as far as the provider loop
LoopRan(c) == Prepared(c).ok /\ c.result # "skipped-duplicate" /\ ~Prepared(c).cfg.DryRun

\* what finalizeConfig makes of the call's i-th provider
Finalized(c, i) == finalizeConfig([Prepared(c).cfg EXCEPT !.Provider = c.providers[i]])

\* the entries the call appended to the send log
EntriesOf(c) == SubSeq(sendLog, c.logBefore + 1, c.logAfter)

\* C24: a call whose sender calls all failed returns the failure of its last provider
\* (finalization, or the last attempt), and an ok call had a successful sender call or
\* was a dry run
C24_LastFailure ==
    \A k \in DOMAIN calls :
        /\ (LoopRan(calls[k]) /\ \A t \in DOMAIN calls[k].tries : ~calls[k].tries[t].ok)
              => /\ calls[k].result = "failure"
                 /\ calls[k].err.index = Len(calls[k].providers)
                 /\ IF Finalized(calls[k], Len(calls[k].providers)).ok
                    THEN /\ calls[k].err.kind = "send"
                         /\ calls[k].err.attempt = Finalized(calls[k], Len(calls[k].providers)).cfg.RetryCount
                         /\ calls[k].tries[Len(calls[k].tries)].index = Len(calls[k].providers)
                    ELSE calls[k].err.kind = "config"
        /\ calls[k].result = "ok"
              => \/ \E t \in DOMAIN calls[k].tries : calls[k].tries[t].ok
                 \/ Prepared(calls[k]).cfg.DryRun

\* sendgrid and smtp failed twice each and relay, the last provider, could not be
\* finalized
C24_Witness ==
    \E k \in DOMAIN calls :
        /\ calls[k].msg = msgTwo
        /\ calls[k].providers = <<strSendgrid, strSmtp, <<"r","e","l","a","y">>>>
        /\ calls[k].result = "failure"
        /\ Len(calls[k].tries) = 4
        /\ calls[k].err.kind = "config" /\ calls[k].err.index = 3

\* C26: the sender calls of one sendEmail: ordinals 1, 2, ... up to RetryCount >= 1 on one
\* provider; a later provider only after the attempts of the one before are used up, the
\* providers in between not finalizable; nothing after a success
C26_AttemptOrder ==
    \A k \in DOMAIN calls : \A t \in DOMAIN calls[k].tries :
        /\ calls[k].tries[t].retryCount >= 1
        /\ calls[k].tries[t].attempt \in 1..calls[k].tries[t].retryCount
        /\ calls[k].tries[t].ok => t = Len(calls[k].tries)
        /\ IF t > 1 /\ calls[k].tries[t - 1].index = calls[k].tries[t].index
           THEN calls[k].tries[t].attempt = calls[k].tries[t - 1].attempt + 1
           ELSE /\ calls[k].tries[t].attempt = 1
                /\ t > 1 => /\ calls[k].tries[t - 1].index < calls[k].tries[t].index
                            /\ calls[k].tries[t - 1].attempt = calls[k].tries[t - 1].retryCount
                            /\ ~calls[k].tries[t - 1].ok
                /\ \A j \in ((IF t > 1 THEN calls[k].tries[t - 1].index ELSE 0) + 1)
                              ..(calls[k].tries[t].index - 1) : ~Finalized(calls[k], j).ok

\* two failed attempts on the first provider, then a failed and a successful one on the
\* second
C26_Witness ==
    \E k \in DOMAIN calls :
        /\ calls[k].msg = msgTwo
        /\ Len(calls[k].tries) = 4
        /\ calls[k].tries[2].index = 1 /\ calls[k].tries[2].attempt = 2
        /\ calls[k].tries[3].index = 2 /\ calls[k].tries[3].attempt = 1
        /\ calls[k].tries[4].ok
        /\ calls[k].result = "ok"

\* C27: a provider that cannot be finalized gets no sender call, no entry and no backoff,
\* and the provider after it is tried if it can be finalized
C27_ConfigErrorSkips ==
    \A k \in DOMAIN calls : \A i \in DOMAIN calls[k].providers :
        (LoopRan(calls[k]) /\ ~Finalized(calls[k], i).ok) =>
            /\ \A t \in DOMAIN calls[k].tries : calls[k].tries[t].index # i
            /\ \A b \in DOMAIN calls[k].sleeps : calls[k].sleeps[b].index # i
            /\ Len(EntriesOf(calls[k])) =
                  Cardinality({t \in DOMAIN calls[k].tries : Finalized(calls[k], calls[k].tries[t].index).ok})
            /\ \A e \in DOMAIN EntriesOf(calls[k]) : EntriesOf(calls[k])[e].Provider # calls[k].providers[i]
            /\ (/\ i < Len(calls[k].providers)
                /\ \A t \in DOMAIN calls[k].tries : calls[k].tries[t].index < i => ~calls[k].tries[t].ok
                /\ Finalized(calls[k], i + 1).ok)
                  => \E t \in DOMAIN calls[k].tries :
                        calls[k].tries[t].index = i + 1 /\ calls[k].tries[t].attempt = 1

\* relay could not be finalized and smtp was tried twice, with one backoff
C27_Witness ==
    \E k \in DOMAIN calls :
        /\ calls[k].msg = msgFallback
        /\ calls[k].providers = <<<<"r","e","l","a","y">>, strSmtp>>
        /\ ~Finalized(calls[k], 1).ok
        /\ Len(calls[k].tries) = 2 /\ calls[k].tries[1].index = 2
        /\ calls[k].sleeps = <<[index |-> 2, attempt |-> 1]>>
        /\ Len(EntriesOf(calls[k])) = 2

\* the entries of a call are its sender calls, one for one: ordinal, provider (the host
\* of a config that names none) and outcome
EntryPerSenderCall ==
    \A k \in DOMAIN calls :
        /\ Len(EntriesOf(calls[k])) = Len(calls[k].tries)
        /\ \A t \in DOMAIN calls[k].tries :
              /\ EntriesOf(calls[k])[t].Attempt = calls[k].tries[t].attempt
              /\ EntriesOf(calls[k])[t].Provider =
                    (IF calls[k].tries[t].provider # <<>> THEN calls[k].tries[t].provider
                     ELSE calls[k].tries[t].host)
              /\ EntriesOf(calls[k])[t].Success = calls[k].tries[t].ok

\* a step leaves the entries of the send log as they are and in their places
LogGrows == Len(sendLog') >= Len(sendLog) /\ SubSeq(sendLog', 1, Len(sendLog)) = sendLog

-----------------------------------------------------------------------------
(* SpecCount: countSuccessesSince over send logs that hold entries and other lines *)

\* a line of the log file that is not the JSON of an entry
malformedLine == [Text |-> <<"{","t","i","m","e">>]

addrGmail2 == <<"v","@","G","m","a","i","l",".","c","o","m">>

CountLines ==
    { LogEntry(0, strSendgrid, TRUE, <<addrGmail, addrGmail2>>),
      LogEntry(Hour, strSendgrid, TRUE, <<addrOther, addrGmail>>),
      LogEntry(Hour + 1, strSendgrid, TRUE, <<addrGmail>>),
      LogEntry(0, strSendgrid, FALSE, <<addrGmail>>),
      LogEntry(0, strSmtp, TRUE, <<addrGmailName>>),
      LogEntry(0, strMailgun, TRUE, <<addrOther>>),
      malformedLine }

\* the longest log counted over, and the number of counts taken
MaxCountLog == 2
MaxCounts == 1

CountProviders == {<<>>, <<strSendGridMx>>, <<strSmtp, strMailgun>>}
CountDomains == {<<>>, <<domGmailMx>>, <<domAcme, <<"e","x",".","o","r","g">>>>}
CountWindows == {Hour, 24 * Hour}

InitCount ==
    /\ now = Epoch
    /\ sendLog \in SeqsUpTo(CountLines, MaxCountLog)
    /\ ResolveIdle /\ DedupIdle /\ SendIdle /\ StoreIdle /\ SchedIdle

\* one call of countSuccessesSince(providers, now - window, toDomains)
CountCall ==
    /\ Len(calls) < MaxCounts
    /\ \E providers \in CountProviders, window \in CountWindows, toDomains \in CountDomains :
          calls' = Append(calls,
              [op |-> "countSuccessesSince", providers |-> providers, since |-> now - window,
               toDomains |-> toDomains,
               count |-> countSuccessesSince(providers, now - window, toDomains)])
    /\ UNCHANGED <<now, sendLog, resolveVars, dedupVars, storeVars, schedVars>>

NextCount == CountCall

SpecCount == InitCount /\ [][NextCount]_vars

\* the provider of an entry is one of the providers, names compared lowercased and trimmed
ProviderAmong(e, providers) ==
    \E k \in DOMAIN providers : NormName(providers[k]) = NormName(e.Provider)

\* a recipient of the entry has its domain, the text after "@", among the domains, case
\* apart
RecipientAmong(e, toDomains) ==
    \E i \in DOMAIN e.Recipients : \E t \in DOMAIN toDomains :
        /\ extractDomain(e.Recipients[i]) # <<>>
        /\ ToLower(TrimSpace(toDomains[t])) = extractDomain(e.Recipients[i])

\* the lines of the log that are successful entries not before since, of one of the
\* providers (any when there is none) and to one of the domains (any when there is none)
Matching(providers, since, toDomains) ==
    { i \in DOMAIN sendLog :
        /\ sendLog[i] # malformedLine
        /\ sendLog[i].Success
        /\ sendLog[i].Timestamp >= since
        /\ (providers = <<>> \/ ProviderAmong(sendLog[i], providers))
        /\ (toDomains = <<>> \/ RecipientAmong(sendLog[i], toDomains)) }

\* C25: countSuccessesSince returns the number of matching entries, each counted once,
\* other lines skipped, 0 on a log without lines
C25_CountMatches ==
    \A k \in DOMAIN calls :
        calls[k].count = Cardinality(Matching(calls[k].providers, calls[k].since, calls[k].toDomains))

\* a malformed line and an entry with two recipients at gmail.com: counted once
C25_Witness ==
    /\ Len(calls) = 1
    /\ sendLog = <<malformedLine, LogEntry(0, strSendgrid, TRUE, <<addrGmail, addrGmail2>>)>>
    /\ calls[1].providers = <<strSendGridMx>>
    /\ calls[1].toDomains = <<domGmailMx>>
    /\ calls[1].count = 1

\* nothing to count: no line at all
EmptyLogCounted == Len(calls) = 1 /\ sendLog = <<>> /\ calls[1].count = 0

-----------------------------------------------------------------------------
(* the order of a parent's bookkeeping and its child's dispatch, checked under
   SpecDispatch *)

\* the goroutine w checks a job that requires the success of a named predecessor
ChecksDependency(w) ==
    /\ w.pc = "check"
    /\ buildSendContext(w.job).RequireLastSuccess
    /\ buildSendContext(w.job).PrevJobID # <<>>

\* this step is w's dependency check finding `success`: w goes on to sendEmail
ObservesSuccess(w) ==
    /\ w \in procs /\ w \notin procs'
    /\ ChecksDependency(w)
    /\ [w EXCEPT !.pc = "send"] \in procs'

InStore(id) == \E i \in DOMAIN jobsFile : jobsFile[i].ID = id

-----------------------------------------------------------------------------
(* SpecRetry: the worker process on a store of one due job, the ticker firing for as long
   as the process runs and every goroutine going on to its end. calls holds one record per
   sendEmail call of a goroutine *)

\* schedule mode repeat, sent through smtp
msgRepeat == [Config0 EXCEPT !.Body = <<"H","i">>]

RetryBases == {captureRawContent(msgOnce), captureRawContent(msgRepeat)}

\* the goroutines at work at the same time
MaxRetryFlight == 2

\* the sends the external sender lets fail before it delivers
MaxFailures == 2

InitRetry ==
    /\ now = Epoch
    /\ sendLog = <<>>
    /\ ResolveIdle
    /\ DedupIdle
    /\ calls = <<>>
    /\ SchedStarted
    /\ \E base \in RetryBases :
          jobsFile \in {persistAll(a) : a \in Add(<<>>, Schedule(base, Epoch, NoMap, 0))}
    /\ idSeq = 1

\* the least number no goroutine in flight carries
FreeSlot ==
    CHOOSE n \in 1..(Cardinality(procs) + 1) :
        /\ \A w \in procs : w.wid[1] # n
        /\ \A m \in 1..(n - 1) : \E w \in procs : w.wid[1] = m

\* a tick that finds due jobs: one goroutine per job of ListDue(now)
RetryTick ==
    /\ \E jobs \in ListDue(now) :
          /\ Len(jobs) > 0
          /\ Cardinality(procs) + Len(jobs) <= MaxRetryFlight
          /\ procs' = procs \cup {Worker(FreeSlot, jobs[k]) : k \in DOMAIN jobs}
          /\ sched' = [sched EXCEPT !.wg = @ + Len(jobs)]
    /\ UNCHANGED <<now, sendLog, resolveVars, dedupVars, calls, storeVars, jobResults>>

FailuresSoFar == Cardinality({k \in DOMAIN calls : calls[k].result = "failure"})

\* a goroutine merges the metadata into its copy and calls sendEmail; the sender fails
\* MaxFailures calls at most
RetrySend ==
    /\ \E w \in procs :
          /\ w.pc = "send"
          /\ \E okAt \in SendOutcomes(cfgCopy(w.job)) :
                /\ okAt = <<0, 0>> => FailuresSoFar < MaxFailures
                /\ \E r \in {sendEmail(cfgCopy(w.job), buildSendContext(w.job), okAt)} :
                      /\ sendOutcome(w, r)
                      /\ calls' = Append(calls,
                             [op |-> "sendEmail", job |-> w.job.ID,
                              attempts |-> w.job.Attempts, result |-> r.result])
    /\ UNCHANGED <<now, resolveVars, storeVars, jobResults, sched>>

NextRetry ==
    RetryTick \/ WorkerCheck \/ RetrySend \/ WorkerRecord \/ WorkerLoad \/ WorkerPersist

\* RetrySend can happen: a goroutine is about to call sendEmail, and the sender has an
\* outcome for every call
SendRunnable == \E w \in procs : w.pc = "send"

\* WF_vars(RetrySend), its ENABLED written as the state predicate it amounts to
FairSend == []<>(~SendRunnable) \/ []<><<RetrySend>>_vars

\* time.Ticker fires again and again and the Go scheduler runs every goroutine that can
\* run
SpecRetry ==
    /\ InitRetry
    /\ [][NextRetry]_vars
    /\ WF_vars(RetryTick)
    /\ WF_vars(WorkerCheck) /\ FairSend /\ WF_vars(WorkerRecord)
    /\ WF_vars(WorkerLoad) /\ WF_vars(WorkerPersist)

\* no behaviour makes more sendEmail calls than this
MaxRetryCalls == 8

CallsBounded == Len(calls) <= MaxRetryCalls

\* C29 as stated: after a failed dispatch the job is dispatched again
C29_Original ==
    \A k \in 1..MaxRetryCalls :
        (Len(calls) = k /\ calls[k].result = "failure") ~> (Len(calls) > k)

-----------------------------------------------------------------------------
(* the Job Result map over the steps of the worker process, checked under SpecDispatch *)

\* a step keeps every recorded result as it is
ResultsKept ==
    \A id \in DOMAIN jobResults : id \in DOMAIN jobResults' /\ jobResults'[id] = jobResults[id]

\* C31 as stated: once a result has been recorded for a job id, no later step of the
\* scheduler overwrites it with a different value
C31_Original == [][ResultsKept]_vars

\* a recorded success that a later goroutine of the same job has overwritten
SuccessOverwritten ==
    \E id \in DOMAIN jobResults :
        /\ jobResults[id] # JobResultSuccess
        /\ \E k \in DOMAIN sendLog : sendLog[k].JobID = id /\ sendLog[k].Success

-----------------------------------------------------------------------------
(* SpecControl: Start and Stop called on one Scheduler by callers that run side by side.
   A call takes its steps one lock or one channel or WaitGroup operation at a time. calls
   holds a record per call of Start and Stop that has passed its test of s.running, and a
   record per tick *)

\* the goroutines that call Start and Stop
MaxCallers == 2

\* the calls of Start and Stop of a behaviour
MaxCtlCalls == 4

\* the ticks of a behaviour
MaxCtlTicks == 1

\* the job goroutines at work at the same time
MaxCtlFlight == 1

\* caller c inside Start or Stop: pc is the statement it is about to execute
Caller(c, op, pc) ==
    [wid |-> <<0, <<"c">> \o Digits(c)>>, job |-> <<>>, pc |-> pc, op |-> op, status |-> "",
     snap |-> <<>>, hdf |-> FALSE]

\* caller c is inside no call
Outside(c) == \A w \in procs : w.wid # Caller(c, "", "").wid

\* the ticker loops at their select
Loops == {l \in procs : l.pc = "select"}

\* the goroutines of jobs
CtlWorkers == {w \in procs : w.job # <<>>}

CtlCalls == {k \in DOMAIN calls : calls[k].op \in {"Start", "Stop"}}

CtlTicks == {k \in DOMAIN calls : calls[k].op = "tick"}

\* a scheduler that was made and not started, its store holding one job that is due
InitControl ==
    /\ now = Epoch
    /\ sendLog = <<>>
    /\ ResolveIdle
    /\ DedupIdle
    /\ calls = <<>>
    /\ SchedIdle
    /\ \E base \in SchedBases :
          jobsFile \in {persistAll(a) : a \in Add(<<>>, Schedule(base, Epoch, NoMap, 0))}
    /\ idSeq = 1

\* the record of a call that has passed its test of s.running
ctlRecord(op, c, result) ==
    [op |-> op, caller |-> c, result |-> result, running |-> sched.running, loops |-> Loops]

\* Start, its critical section: an error when the scheduler is running, else running is
\* set
StartLocked ==
    /\ sched.ctl = "idle"
    /\ Cardinality(CtlCalls) < MaxCtlCalls
    /\ \E c \in 1..MaxCallers :
          /\ Outside(c)
          /\ IF sched.running
             THEN /\ calls' = Append(calls, ctlRecord("Start", c, "error"))
                  /\ UNCHANGED <<procs, sched>>
             ELSE /\ calls' = Append(calls, ctlRecord("Start", c, "nil"))
                  /\ sched' = [sched EXCEPT !.running = TRUE]
                  /\ procs' = procs \cup {Caller(c, "Start", "spawn")}
    /\ UNCHANGED <<now, sendLog, resolveVars, dedupVars, storeVars, jobResults>>

\* Start after its critical section: s.wg.Add(1); go s.runLoop()
StartSpawn ==
    /\ \E w \in procs :
          /\ w.op = "Start" /\ w.pc = "spawn"
          /\ sched' = [sched EXCEPT !.wg = @ + 1, !.loops = @ + 1]
          /\ procs' = (procs \ {w}) \cup {Loop(sched.loops + 1)}
    /\ UNCHANGED <<now, sendLog, resolveVars, dedupVars, calls, storeVars, jobResults>>

\* Stop, its critical section: it returns when the scheduler is not running, else running
\* is reset
StopLocked ==
    /\ sched.ctl = "idle"
    /\ Cardinality(CtlCalls) < MaxCtlCalls
    /\ \E c \in 1..MaxCallers :
          /\ Outside(c)
          /\ IF ~sched.running
             THEN /\ calls' = Append(calls, ctlRecord("Stop", c, "noop"))
                  /\ UNCHANGED <<procs, sched>>
             ELSE /\ calls' = Append(calls, ctlRecord("Stop", c, "stopping"))
                  /\ sched' = [sched EXCEPT !.running = FALSE]
                  /\ procs' = procs \cup {Caller(c, "Stop", "close")}
    /\ UNCHANGED <<now, sendLog, resolveVars, dedupVars, storeVars, jobResults>>

\* close(s.stop): the close of a closed channel panics and ends the process
StopClose ==
    /\ \E w \in procs :
          /\ w.op = "Stop" /\ w.pc = "close"
          /\ IF sched.closed
             THEN /\ sched' = [sched EXCEPT !.ctl = "panic", !.last = "stop-panic"]
                  /\ procs' = {}
             ELSE /\ sched' = [sched EXCEPT !.closed = TRUE]
                  /\ procs' = (procs \ {w}) \cup {[w EXCEPT !.pc = "wait"]}
    /\ UNCHANGED <<now, sendLog, resolveVars, dedupVars, calls, storeVars, jobResults>>

\* s.wg.Wait() returns and with it Stop
StopWait ==
    /\ \E w \in procs :
          /\ w.op = "Stop" /\ w.pc = "wait"
          /\ wgWait
          /\ procs' = procs \ {w}
    /\ UNCHANGED <<now, sendLog, resolveVars, dedupVars, calls, storeVars, jobResults, sched>>

\* a loop's select takes a tick: one goroutine per job of ListDue(now)
CtlTick ==
    /\ Cardinality(CtlTicks) < MaxCtlTicks
    /\ \E l \in procs :
          /\ l.pc = "select"
          /\ \E jobs \in ListDue(now) :
                /\ Cardinality(CtlWorkers) + Len(jobs) <= MaxCtlFlight
                /\ procs' = procs \cup {Worker(Len(calls) + 1, jobs[k]) : k \in DOMAIN jobs}
                /\ calls' = Append(calls, [op |-> "tick", at |-> now, loop |-> l.wid[2],
                                           due |-> {jobs[k].ID : k \in DOMAIN jobs},
                                           results |-> DOMAIN jobResults, waited |-> {}])
                /\ sched' = [sched EXCEPT !.wg = @ + Len(jobs)]
    /\ UNCHANGED <<now, sendLog, resolveVars, dedupVars, storeVars, jobResults>>

NextControl ==
    \/ StartLocked \/ StartSpawn \/ StopLocked \/ StopClose \/ StopWait \/ LoopStop \/ CtlTick
    \/ WorkerCheck \/ WorkerSend \/ WorkerRecord \/ WorkerLoad \/ WorkerPersist

SpecControl == InitControl /\ [][NextControl]_vars

\* at most one ticker loop is running
AtMostOneLoop == Cardinality(Loops) <= 1

\* a Start that found the scheduler running returned an error, and its step changed
\* nothing but the record of the call
StartOnRunning ==
    \A k \in CtlCalls :
        (calls[k].op = "Start" /\ calls[k].running) => calls[k].result = "error"

\* a Stop that found the scheduler not running returned at once
StopOnStopped ==
    \A k \in CtlCalls :
        (calls[k].op = "Stop" /\ ~calls[k].running) => calls[k].result = "noop"

\* the step of a call that returned at its test of s.running left the scheduler, the
\* goroutines and the stop channel as they were
GuardedReturnFrame ==
    (/\ Len(calls') = Len(calls) + 1
     /\ calls'[Len(calls')].op \in {"Start", "Stop"}
     /\ calls'[Len(calls')].result \in {"error", "noop"}) =>
        (procs' = procs /\ sched' = sched)

\* C32 as stated: at most one ticker loop runs per Scheduler: Start() on an already
\* running scheduler returns an error and spawns nothing, and Stop() on a scheduler that
\* is not running is a no-op
C32_Original ==
    /\ []AtMostOneLoop
    /\ []StartOnRunning /\ []StopOnStopped
    /\ [][GuardedReturnFrame]_vars

-----------------------------------------------------------------------------
(* SpecDefaults: generic workflows whose steps set or leave out their name, their step
   label, require_last_success and skip_ahead *)

\* a blank step label beside a name; a minute later a name that is no string and a
\* skip_ahead set by a number; another minute later a step that declines the dependency
\* by a string and sets skip_ahead
defLabels ==
    JArr(<< JObj((strStep :> JStr(<<" ">>)) @@ (kName :> JStr(<<"i","n","t","r","o">>))),
            JObj((kName :> JNum(7)) @@ (kSkipAhead :> JNum(1)) @@ (kDelay :> JNum(60))),
            JObj((strStep :> JStr(<<"l","a","s","t">>)) @@ (kName :> JStr(<<"t","h","i","r","d">>))
                 @@ (kRequire :> JStr(<<"n","o">>)) @@ (kSkipAhead :> JBool(TRUE))
                 @@ (kDelay :> JNum(120))) >>)

\* a first step that asks for the dependency and a second, a minute later, that sets
\* nothing
defExplicit ==
    JArr(<< JObj((kName :> JStr(<<"f","i","r","s","t">>)) @@ (kRequire :> JStr(<<"Y","e","s">>))),
            JObj((strStep :> JStr(<<"n","e","x","t">>)) @@ (kDelay :> JNum(60))) >>)

\* one step that names nothing
defBare == JArr(<< JObj(NoMap) >>)

\* one step with a blank name
defBlankName == JArr(<< JObj(kName :> JStr(<<" ">>)) >>)

DefaultsDefs == {defLabels, defExplicit, defOverrides, defBare, defBlankName}

\* ScheduleGenericWorkflow(s, base, def), from entry to return
DefaultsCall ==
    /\ Len(calls) < MaxWorkflows /\ WfFresh
    /\ \E base \in WfBases, def \in DefaultsDefs :
          \E r \in ScheduleGenericWorkflow(loadAll, idSeq, base, def, now) :
              /\ jobsFile' = r.store
              /\ idSeq' = r.n
              /\ calls' = Append(calls, [op |-> "generic", at |-> now, def |-> def, err |-> r.err,
                                         steps |-> IF def.t = "array" THEN Len(def.v) ELSE 0,
                                         before |-> jobsFile])
    /\ UNCHANGED <<now, sendLog, resolveVars, dedupVars, schedVars>>

NextDefaults == DefaultsCall \/ WfAdvance

SpecDefaults == InitWorkflow /\ [][NextDefaults]_vars

\* the step map of step i (from 0) of the workflow of call c
StepMapOf(c, i) == c.def.v[i + 1].v

\* the string under key k of a step map, "" when there is none
stepString(stepMap, k) == IF HasType(stepMap, k, "string") THEN stepMap[k].v ELSE <<>>

\* the label the step asks for: its step, else its name, else "step-i"
AskedLabel(stepMap, i) ==
    IF TrimSpace(stepString(stepMap, strStep)) # <<>> THEN stepString(stepMap, strStep)
    ELSE IF TrimSpace(stepString(stepMap, kName)) # <<>> THEN stepString(stepMap, kName)
    ELSE <<"s","t","e","p","-">> \o Digits(i)

\* the job carries the index of its step and a label that is not blank
IndexAndLabel(job, i) ==
    /\ job.Meta[kStepIndex] = JNum(i)
    /\ buildSendContext(job).StepIndex = i
    /\ HasType(job.Meta, strStep, "string")
    /\ TrimSpace(job.Meta[strStep].v) # <<>>
    /\ buildSendContext(job).Step = job.Meta[strStep].v

\* require_last_success of the job: the step's own value when it sets one, else true
\* from step 1 on and not set for step 0
RequireDefault(job, stepMap, i) ==
    IF kRequire \in DOMAIN stepMap
    THEN buildSendContext(job).RequireLastSuccess = normalizeBool(stepMap[kRequire])
    ELSE IF i >= 1
    THEN job.Meta[kRequire] = JBool(TRUE) /\ buildSendContext(job).RequireLastSuccess
    ELSE kRequire \notin DOMAIN job.Meta /\ ~buildSendContext(job).RequireLastSuccess

\* skip_ahead of a job whose step does not set it is false
SkipAheadDefault(job, stepMap) ==
    kSkipAhead \notin DOMAIN stepMap =>
        /\ ~buildSendContext(job).SkipAhead
        /\ kSkipAhead \in DOMAIN job.Meta => job.Meta[kSkipAhead] = JBool(FALSE)

\* the jobs of the last workflow, step by step, satisfy P(job, stepMap, i)
EveryStep(P(_, _, _)) ==
    (Len(calls) > 0 /\ ~LastCall.err) =>
        \A i \in 0..(LastCall.steps - 1) :
            /\ Cardinality(StepJobs(LastCall, i)) = 1
            /\ \A k \in StepJobs(LastCall, i) : P(jobsFile[k], StepMapOf(LastCall, i), i)

LabelAsAsked(job, stepMap, i) == job.Meta[strStep].v = AskedLabel(stepMap, i)

\* the label the step gets: its step when that is a string and not empty, else its name
\* when that is one, and "step-i" when what this gives is blank
GivenLabel(stepMap, i) ==
    IF stepString(stepMap, strStep) # <<>>
    THEN (IF TrimSpace(stepString(stepMap, strStep)) # <<>> THEN stepString(stepMap, strStep)
          ELSE <<"s","t","e","p","-">> \o Digits(i))
    ELSE IF TrimSpace(stepString(stepMap, kName)) # <<>> THEN stepString(stepMap, kName)
    ELSE <<"s","t","e","p","-">> \o Digits(i)

LabelAsGiven(job, stepMap, i) == job.Meta[strStep].v = GivenLabel(stepMap, i)

StepDefaults(job, stepMap, i) ==
    /\ IndexAndLabel(job, i)
    /\ RequireDefault(job, stepMap, i)
    /\ SkipAheadDefault(job, stepMap)

\* C33 as stated: for every step i the job metadata has step_index = i and a non-empty
\* step label (the step's name/step, else step-i); require_last_success is true for every
\* step i >= 1 that does not set it and is not set for step 0 by default; an explicit
\* value overrides the default; skip_ahead defaults to false
C33_Original ==
    /\ EveryStep(StepDefaults)
    /\ EveryStep(LabelAsAsked)

\* C33: for every step i the job metadata has step_index = i and a step label that is
\* not blank: the step's `step` when that is a non-empty string, else its name when that
\* is a non-empty string, and step-i when the label so chosen is blank or there is none (a
\* blank `step` beside a name gives step-i). require_last_success is true for every step
\* i >= 1 that does not set it and is not set for step 0 by default; a value the step
\* sets overrides the default; skip_ahead of a step that does not set it is false.
C33_StepDefaults ==
    /\ EveryStep(StepDefaults)
    /\ EveryStep(LabelAsGiven)

\* C33 witness: the workflow of three steps has been scheduled whose first step has a
\* blank step label beside its name, whose second step sets nothing of the dependency and
\* whose third step declines it
C33_Witness ==
    /\ Len(calls) > 0 /\ ~LastCall.err /\ LastCall.def = defLabels
    /\ \E k \in StepJobs(LastCall, 0) :
          /\ jobsFile[k].Meta[strStep] = JStr(<<"s","t","e","p","-","0">>)
          /\ jobsFile[k].Meta[kName] = JStr(<<"i","n","t","r","o">>)
          /\ kRequire \notin DOMAIN jobsFile[k].Meta
    /\ \E k \in StepJobs(LastCall, 1) :
          /\ jobsFile[k].Meta[strStep] = JStr(<<"s","t","e","p","-","1">>)
          /\ jobsFile[k].Meta[kRequire] = JBool(TRUE)
          /\ jobsFile[k].Meta[kSkipAhead] = JBool(TRUE)
    /\ \E k \in StepJobs(LastCall, 2) :
          /\ jobsFile[k].Meta[strStep] = JStr(<<"l","a","s","t">>)
          /\ kRequire \notin DOMAIN jobsFile[k].Meta
          /\ kSkipAhead \notin DOMAIN jobsFile[k].Meta

-----------------------------------------------------------------------------
(* SpecOverflow: batches whose jobs use up every candidate of a later job *)

\* gmail.com -> smtp then sendgrid, one send per batch through each
routeBothFull ==
    [Route0 EXCEPT !.ToDomains = <<domGmail>>, !.ProviderPriority = <<strSmtp, strSendgrid>>,
                   !.ProviderCapacities = (strSmtp :> 1) @@ (strSendgrid :> 1)]
\* gmail.com -> smtp only, one send per batch
routeSmtpOnly ==
    [Route0 EXCEPT !.ToDomains = <<domGmail>>, !.ProviderPriority = <<strSmtp>>,
                   !.ProviderCapacities = (strSmtp :> 1)]

cfgPair     == [Config0 EXCEPT !.ProviderPriority = <<strSmtp, strSendgrid>>,
                               !.ProviderRoutes = <<routeBothFull>>]
cfgSmtpOnly == [Config0 EXCEPT !.Provider = strSmtp, !.ProviderRoutes = <<routeSmtpOnly>>]

OverflowConfigs == {cfgPair, cfgSmtpOnly, cfgSingle}

OverflowBatches ==
    UNION { { [i \in 1..n |-> [ID |-> AllocID(ids[i]), Config |-> cs[i]]] :
                ids \in {[i \in 1..n |-> i], [i \in 1..n |-> n + 1 - i]},
                cs \in [1..n -> OverflowConfigs] } : n \in 0..MaxBatch }

InitOverflow ==
    /\ now = Epoch
    /\ sendLog \in AllocLogs
    /\ \E jobs \in OverflowBatches :
          calls = <<[op |-> "AllocateJobs", jobs |-> jobs, done |-> FALSE,
                     assign |-> NoMap, steps |-> <<>>]>>
    /\ ResolveIdle /\ DedupIdle /\ StoreIdle /\ SchedIdle

SpecOverflow == InitOverflow /\ [][NextAllocate]_vars

\* what is left of provider p for the job of step s: its capacity less the jobs of the
\* batch it was given before, zero or below once it is used up
RemainingAt(s, p) == capOf(calls[1].steps[s].Config, p) - CountBefore(s, p)

\* no candidate of the job of step s has capacity left
AllAtCapacity(s) ==
    /\ calls[1].steps[s].assigned
    /\ \A c \in Range(calls[1].steps[s].cands) : AtCapacity(s, c)

\* p is the candidate of step s with the most capacity left, the cheapest one of those
LargestRemaining(s, p) ==
    /\ p \in Range(calls[1].steps[s].cands)
    /\ \A c \in Range(calls[1].steps[s].cands) :
          \/ RemainingAt(s, c) < RemainingAt(s, p)
          \/ RemainingAt(s, c) = RemainingAt(s, p) /\ fallbackCost(p) <= fallbackCost(c)

\* C34 as stated: when none of a job's candidates has capacity left in the batch, the job
\* is assigned the candidate with the largest remaining capacity, the one of lower cost
\* among equals
C34_Original ==
    AllocDone =>
        \A s \in DOMAIN calls[1].steps :
            AllAtCapacity(s) => LargestRemaining(s, calls[1].steps[s].chosen)

\* a job of two used-up candidates that was given the first one, the dearer of the two
FirstCandidateKept ==
    /\ AllocDone
    /\ \E s \in DOMAIN calls[1].steps :
          /\ AllAtCapacity(s)
          /\ Len(calls[1].steps[s].cands) = 2
          /\ calls[1].steps[s].chosen = calls[1].steps[s].cands[1]
          /\ fallbackCost(calls[1].steps[s].cands[2]) < fallbackCost(calls[1].steps[s].cands[1])

-----------------------------------------------------------------------------
(* maps and structs by address. A Go map and a struct taken by pointer are objects of the
   heap: heap[a] is the object at address a, 0 is nil. A map is a function from its keys
   to JSON values, a value that is itself a map being the address of that map. Strings
   are immutable and the slices of an EmailConfig are only ever replaced whole, so they
   stay values of the struct. *)

MapRef(a) == [t |-> "mapref", v |-> a]

\* the maps a map reaches: itself and the maps in it
RECURSIVE reach(_, _)
reach(h, a) ==
    IF a = 0 THEN {}
    ELSE {a} \cup UNION {reach(h, h[a][k].v) : k \in {x \in DOMAIN h[a] : h[a][x].t = "mapref"}}

\* what json.Marshal writes for the map at address a
RECURSIVE mapValue(_, _)
mapValue(h, a) ==
    IF a = 0 THEN NoMap
    ELSE [k \in DOMAIN h[a] |-> IF h[a][k].t = "mapref" THEN JObj(mapValue(h, h[a][k].v)) ELSE h[a][k]]

\* what json.Marshal writes for the EmailConfig at address a
configValue(h, a) == [h[a] EXCEPT !.AdditionalData = mapValue(h, @)]

\* what json.Marshal writes for the ScheduledEmail at address a
jobValue(h, a) == [h[a] EXCEPT !.Config = configValue(h, @), !.Meta = mapValue(h, @)]

\* mutant of cloneAdditionalData: the map itself is handed back
cloneAdditionalData_shared(h, a) == [heap |-> h, addr |-> a]

\* cloneAdditionalData(src): [heap, addr], nil for nil, else a new map whose values are
\* the clones of the values of src (cloneArbitraryValue: a map is cloned in turn)
RECURSIVE cloneAdditionalData(_, _)
RECURSIVE cloneEntries(_, _, _, _)

cloneNested(r, src, rest, copy, k) ==
    cloneEntries(r.heap, src, rest, (k :> MapRef(r.addr)) @@ copy)

cloneEntry(h, src, keys, copy, k) ==
    IF src[k].t = "mapref"
    THEN cloneNested(cloneAdditionalData(h, src[k].v), src, keys \ {k}, copy, k)
    ELSE cloneEntries(h, src, keys \ {k}, (k :> src[k]) @@ copy)

cloneEntries(h, src, keys, copy) ==
    IF keys = {} THEN [heap |-> Append(h, copy), addr |-> Len(h) + 1]
    ELSE cloneEntry(h, src, keys, copy, CHOOSE k \in keys : TRUE)

cloneAdditionalData(h, a) ==
    IF a = 0 THEN [heap |-> h, addr |-> 0]
    ELSE cloneEntries(h, h[a], DOMAIN h[a], <<>>)

\* json.Unmarshal of an object into a map[string]any: [heap, addr], every object in it
\* a map of its own
RECURSIVE decodeMap(_, _)
RECURSIVE decodeEntries(_, _, _, _)

decodeNested(r, val, rest, m, k) ==
    decodeEntries(r.heap, val, rest, (k :> MapRef(r.addr)) @@ m)

decodeEntry(h, val, keys, m, k) ==
    IF val[k].t = "object"
    THEN decodeNested(decodeMap(h, val[k].v), val, keys \ {k}, m, k)
    ELSE decodeEntries(h, val, keys \ {k}, (k :> val[k]) @@ m)

decodeEntries(h, val, keys, m) ==
    IF keys = {} THEN [heap |-> Append(h, m), addr |-> Len(h) + 1]
    ELSE decodeEntry(h, val, keys, m, CHOOSE k \in keys : TRUE)

decodeMap(h, val) == decodeEntries(h, val, DOMAIN val, <<>>)

\* json.Unmarshal of a ScheduledEmail of the store file: [heap, addr], the job last, its
\* config before it
decodeJobAt(m, job, ad) ==
    [heap |-> m.heap \o << [job.Config EXCEPT !.AdditionalData = ad],
                           [job EXCEPT !.Config = Len(m.heap) + 1, !.Meta = m.addr] >>,
     addr |-> Len(m.heap) + 2]

decodeMeta(c, job) == decodeJobAt(decodeMap(c.heap, job.Meta), job, c.addr)

decodeJob(h, job) == decodeMeta(decodeMap(h, job.Config.AdditionalData), job)

\* `if cfgCopy.AdditionalData == nil { cfgCopy.AdditionalData = map[string]any{} }`
orEmptyMap(c) ==
    IF c.addr = 0 THEN [heap |-> Append(c.heap, <<>>), addr |-> Len(c.heap) + 1] ELSE c

\* `for k, v := range meta { cfgCopy.AdditionalData[k] = v }` on the map at c.addr, the
\* keys being those of `keys`
mergeInto(c, meta, keys) ==
    [heap |-> [c.heap EXCEPT ![c.addr] = [k \in keys |-> meta[k]] @@ @], addr |-> c.addr]

-----------------------------------------------------------------------------
(* SpecValue: a generic workflow is scheduled from a base message that lives at an
   address, and the worker dispatches its jobs one goroutine at a time; the maps of the
   messages are followed by address *)

kPlan == <<"p","l","a","n">>
kUser == <<"u","s","e","r">>

\* the base message at address 1, its AdditionalData nil, a flat map, a map with a map in it
heapNil == << [captureRawContent(msgOnce) EXCEPT !.AdditionalData = 0] >>
heapFlat ==
    << [captureRawContent(msgOnce) EXCEPT !.AdditionalData = 2],
       (kPlan :> JStr(<<"p","r","o">>)) @@ (strStep :> JStr(<<"I","n","t","r","o">>)) >>
heapNested ==
    << [captureRawContent(msgOnce) EXCEPT !.AdditionalData = 2],
       (kPlan :> JStr(<<"p","r","o">>)) @@ (kUser :> MapRef(3)),
       (kName :> JStr(<<"A","n","n">>)) >>

ValueHeaps == {heapNil, heapFlat, heapNested}

\* the address of the base message
BaseAddr == Len(heapNil)

ValueDefs == {defLabels, defOverrides, defBadStep}

\* the calls of a behaviour: the workflow and the dispatches
MaxValueCalls == 4

\* the minutes the clock moves on
MaxValueTicks == 2

InitValue ==
    /\ now = Epoch
    /\ sendLog = <<>>
    /\ rcfg = Config0 /\ rout = <<>> /\ rdone = FALSE
    /\ heap \in ValueHeaps
    /\ calls = <<>>
    /\ DedupIdle /\ StoreIdle /\ SchedStarted

\* the copy of the base struct with the step's overrides, its AdditionalData left aside
stepOverrides(v, stepMap) == stepConfig([v EXCEPT !.AdditionalData = NoMap], stepMap, NoMap)

\* store.Add(job) of Schedule for the job at address j of heap h; r is the loop so far
addByRef(r, h, j) ==
    [err |-> FALSE, heap |-> h,
     store |-> persistAll(CHOOSE a \in Add(r.store, jobValue(h, j)) : TRUE),
     n |-> r.n + 1, last |-> h[j].ID, jobs |-> Append(r.jobs, j)]

\* s.Schedule(&cfgCopy, runAt, meta): cfgCopy with the map at c.addr goes to the heap,
\* and so does the job that points to it and to meta
scheduleByRef(r, c, meta, cfg, runAt) ==
    addByRef(r, c.heap \o << [cfg EXCEPT !.AdditionalData = c.addr],
                             Schedule(Len(c.heap) + 1, runAt, meta, r.n) >>,
             Len(c.heap) + 2)

\* meta is made, AdditionalData is made if it is nil, meta is merged into it
metaByRef(r, c, meta, cfg, runAt) ==
    scheduleByRef(r, mergeInto(orEmptyMap([heap |-> Append(c.heap, meta), addr |-> c.addr]),
                               meta, DOMAIN meta),
                  Len(c.heap) + 1, cfg, runAt)

\* one round of the loop of ScheduleGenericWorkflow: step i (from 0) of base
stepByRef(r, base, stepMap, i, t) ==
    metaByRef(r, cloneAdditionalData(r.heap, r.heap[base].AdditionalData),
              stepMeta(stepMap, i, r.last), stepOverrides(r.heap[base], stepMap),
              stepRunAt(stepMap, t))

RECURSIVE stepsByRef(_, _, _, _, _)
stepsByRef(r, base, arr, i, t) ==
    IF i > Len(arr) THEN r
    ELSE IF arr[i].t # "object" THEN [r EXCEPT !.err = TRUE]
    ELSE stepsByRef(stepByRef(r, base, arr[i].v, i - 1, t), base, arr, i + 1, t)

\* ScheduleGenericWorkflow(s, base, def) at instant t on heap h:
\* [err, heap, store, n, last, jobs (the addresses of the jobs Schedule returned)]
workflowByRef(h, store, n, base, def, t) ==
    IF def.t # "array"
    THEN [err |-> TRUE, heap |-> h, store |-> store, n |-> n, last |-> <<>>, jobs |-> <<>>]
    ELSE stepsByRef([err |-> FALSE, heap |-> h, store |-> store, n |-> n, last |-> <<>>,
                     jobs |-> <<>>], base, def.v, 1, t)

ValueReturn(def, r) ==
    /\ heap' = r.heap
    /\ jobsFile' = r.store
    /\ idSeq' = r.n
    /\ calls' = <<[op |-> "ScheduleGenericWorkflow", def |-> def, err |-> r.err,
                   base |-> configValue(heap, BaseAddr), baseMaps |-> reach(heap, heap[BaseAddr].AdditionalData),
                   jobs |-> r.jobs]>>

ValueSchedule ==
    /\ calls = <<>>
    /\ \E def \in ValueDefs :
          ValueReturn(def, workflowByRef(heap, jobsFile, idSeq, BaseAddr, def, now))
    /\ UNCHANGED <<now, sendLog, rcfg, rout, rdone, dedupVars, schedVars>>

\* the record of a goroutine: the job ListDue decoded (stored, and its address job), the
\* map of the goroutine's cfgCopy (ad) and the way it went
dispatchRecord(job, d, c, path) ==
    [op |-> "dispatch", path |-> path, stored |-> job, job |-> d.addr, ad |-> c.addr,
     err |-> FALSE]

\* the file after Delete or Update came to res
persisted(res) == IF res.ok THEN persistAll(res.jobs) ELSE jobsFile

\* cfgCopy as sendEmail is handed it: the copy of the job's struct with the merged map
copyValue(d, m) ==
    [m.heap[m.heap[d.addr].Config] EXCEPT !.AdditionalData = mapValue(m.heap, m.addr)]

\* the failure path: j.Attempts++ on the decoded job, and Update(j)
failedUpdate(h, j) ==
    /\ heap' = h
    /\ jobsFile' = persisted(Update(jobsFile, jobValue(h, j)))

\* the goroutine after sendEmail reported r
dispatchOutcome(job, d, m, r) ==
    /\ SendEffects(r)
    /\ IF r.result = "failure"
       THEN /\ failedUpdate([m.heap EXCEPT ![d.addr].Attempts = @ + 1], d.addr)
            /\ jobResults' = recordJobResult(job.ID, JobResultFailed)
       ELSE /\ heap' = m.heap
            /\ jobResults' = recordJobResult(job.ID, IF r.result = "ok" THEN JobResultSuccess
                                                      ELSE JobResultSkipped)
            /\ jobsFile' = persisted(Delete(jobsFile, job.ID))
    /\ calls' = Append(calls, dispatchRecord(job, d, m, r.result))

dispatchSend(job, d, m, ctx) ==
    \E okAt \in SendOutcomes(copyValue(d, m)) :
        dispatchOutcome(job, d, m, sendEmail(copyValue(d, m), ctx, okAt))

\* the keys of the job's metadata the goroutine merges
mergedKeys(meta) == {k \in DOMAIN meta : TrimSpace(k) # <<>>}

\* the goroutine of runLoop for one due job: d is the job as ListDue decoded it, c the
\* clone of its AdditionalData, way what the dependency check came to
dispatchWay(job, d, c, ctx, way) ==
    IF way = "send"
    THEN dispatchSend(job, d, mergeInto(c, c.heap[c.heap[d.addr].Meta],
                                        mergedKeys(c.heap[c.heap[d.addr].Meta])), ctx)
    ELSE /\ heap' = c.heap
         /\ jobResults' = IF way = "blocked" THEN recordJobResult(job.ID, dependencyStatus(ctx))
                          ELSE jobResults
         /\ jobsFile' = IF way = "blocked" THEN persisted(Delete(jobsFile, job.ID)) ELSE jobsFile
         /\ calls' = Append(calls, dispatchRecord(job, d, c, way))
         /\ UNCHANGED <<sendLog, dedupVars>>

dispatchChecked(job, d, c, ctx) ==
    dispatchWay(job, d, c, ctx, dependencyCheck(ctx, getJobResult(ctx.PrevJobID)))

dispatchDecoded(job, d) ==
    dispatchChecked(job, d,
                    orEmptyMap(cloneAdditionalData(d.heap, d.heap[d.heap[d.addr].Config].AdditionalData)),
                    buildSendContext(job))

\* a tick finds a due job and its goroutine runs to its end
ValueDispatch ==
    /\ Len(calls) \in 1..(MaxValueCalls - 1)
    /\ \E due \in ListDue(now) : \E k \in DOMAIN due :
          dispatchDecoded(due[k], decodeJob(heap, due[k]))
    /\ UNCHANGED <<now, rcfg, rout, rdone, idSeq, procs, sched>>

ValueTick ==
    /\ calls # <<>>
    /\ now < Epoch + MaxValueTicks
    /\ now' = now + 1
    /\ UNCHANGED <<sendLog, resolveVars, dedupVars, calls, storeVars, schedVars>>

NextValue == ValueSchedule \/ ValueDispatch \/ ValueTick

SpecValue == InitValue /\ [][NextValue]_vars

-----------------------------------------------------------------------------
(* the message as a value, checked under SpecValue *)

\* the maps of the AdditionalData of the job at address j
jobMaps(j) == reach(heap, heap[heap[j].Config].AdditionalData)

\* the base message is what it was when the workflow was called: its fields (subject,
\* bodies, recipients, provider priority, retry settings), its AdditionalData and the
\* maps that make it up
BaseUnchanged ==
    calls # <<>> =>
        /\ configValue(heap, BaseAddr) = calls[1].base
        /\ reach(heap, heap[BaseAddr].AdditionalData) = calls[1].baseMaps

\* the jobs Schedule returned share no map with each other or with the base
NoSharedMaps ==
    calls # <<>> =>
        \A i \in DOMAIN calls[1].jobs :
            /\ jobMaps(calls[1].jobs[i]) # {}
            /\ jobMaps(calls[1].jobs[i]) \cap calls[1].baseMaps = {}
            /\ \A j \in DOMAIN calls[1].jobs :
                  i # j => /\ jobMaps(calls[1].jobs[i]) \cap jobMaps(calls[1].jobs[j]) = {}
                           /\ heap[calls[1].jobs[i]].Config # heap[calls[1].jobs[j]].Config

\* the job a goroutine was handed still holds the message the store gave it, and the
\* goroutine's map is none of the job's maps
WorkerLeavesJob ==
    \A k \in DOMAIN calls :
        calls[k].op = "dispatch" =>
            /\ configValue(heap, heap[calls[k].job].Config) = calls[k].stored.Config
            /\ calls[k].ad \notin jobMaps(calls[k].job)

\* a step leaves the message of every job that stays in the store as it was
StoredKept ==
    \A i \in DOMAIN jobsFile : \A j \in DOMAIN jobsFile' :
        jobsFile[i].ID = jobsFile'[j].ID => jobsFile'[j].Config = jobsFile[i].Config

\* C35: scheduling a workflow leaves the base message unchanged, no two step jobs share
\* an additional-data map with each other or with the base, and a worker that merges the
\* job's metadata into its copy does not modify the stored job's message
C35_MessageAsValue ==
    []BaseUnchanged /\ []NoSharedMaps /\ []WorkerLeavesJob /\ [][StoredKept]_vars

\* three jobs from a base whose map holds a map, and a goroutine whose send failed: its
\* map holds the job's metadata, and the job went back to the store with one more attempt
C35_Witness ==
    /\ Len(calls) >= 2
    /\ Len(calls[1].jobs) = 3
    /\ Cardinality(calls[1].baseMaps) = 2
    /\ \E k \in DOMAIN calls :
          /\ calls[k].op = "dispatch" /\ calls[k].path = "failure"
          /\ \A m \in DOMAIN calls[k].stored.Meta :
                m \in DOMAIN heap[calls[k].ad] /\ heap[calls[k].ad][m] = calls[k].stored.Meta[m]
          /\ heap[calls[k].job].Attempts = calls[k].stored.Attempts + 1
          /\ \E i \in DOMAIN jobsFile :
                jobsFile[i].ID = calls[k].stored.ID /\ jobsFile[i].Attempts = calls[k].stored.Attempts + 1

-----------------------------------------------------------------------------
(* the goroutines of one job, checked under SpecDispatch *)

\* goroutine w is at work on its job: it has been launched and has not returned
Executing(w) == w \in procs /\ w.job # <<>>

\* C36 as stated: at every moment at most one worker is executing a given job id
C36_Original ==
    \A w1 \in procs : \A w2 \in procs :
        (Executing(w1) /\ Executing(w2) /\ w1.job.ID = w2.job.ID) => w1 = w2

\* two goroutines of two ticks, both about to send the same job, which is still in the store
TwoWorkersSending ==
    \E w1 \in procs : \E w2 \in procs :
        /\ w1.wid[1] # w2.wid[1]
        /\ w1.job.ID = w2.job.ID
        /\ w1.pc = "send" /\ w2.pc = "send"
        /\ \E i \in DOMAIN jobsFile : jobsFile[i].ID = w1.job.ID /\ jobsFile[i].RunAt <= now

-----------------------------------------------------------------------------
(* SpecRace: sendEmail called by goroutines that run side by side. A call takes two
   steps: up to the dedup check (dedupKeyExists, under dedupMu), and from there to its
   return (the provider loop with its sender calls and sleeps, and markDedupKey, under
   dedupMu again) *)

\* the goroutines that call sendEmail
MaxRacers == 2

\* the calls of a behaviour
MaxRaceCalls == 3

RaceInputs == { <<msgOnce, ctxWelcome>>, <<msgFallback, ctxWelcome>>, <<msgDry, ctxWelcome>> }

InitRace ==
    /\ now = Epoch
    /\ sendLog = <<>>
    /\ calls = <<>>
    /\ ResolveIdle /\ DedupIdle /\ StoreIdle /\ SchedIdle

\* goroutine c inside sendEmail, past the dedup check
Racer(c, msg, ctx, cfg, key) ==
    [cid |-> c, pc |-> "providers", msg |-> msg, ctx |-> ctx, cfg |-> cfg, key |-> key,
     callsBefore |-> Len(calls)]

IdleRacers == {c \in 1..MaxRacers : \A w \in procs : w.cid # c}

\* sendEmail from past the dedup check on: the dry run, the provider loop
sendUnchecked(cfg, dedupKey, ctx, okAt) ==
    IF cfg.DryRun
    THEN [noSend EXCEPT !.result = "ok", !.key = dedupKey, !.touched = dedupKey # <<>>,
                        !.providers = resolveProviders(cfg), !.err = NoErr]
    ELSE sendReport(sendLoop(cfg, ctx, resolveProviders(cfg), 1, okAt, NoErr), dedupKey,
                    resolveProviders(cfg))

\* the record of a call that has returned; others are the calls that returned while it
\* was at work
RaceReturn(c, msg, ctx, r, before) ==
    /\ SendEffects(r)
    /\ calls' = Append(calls, [caller |-> c, msg |-> msg, ctx |-> ctx, result |-> r.result,
                               key |-> r.key, sent |-> r.sent, mark |-> r.mark,
                               others |-> (before + 1)..Len(calls)])

\* the call passes the dedup check and goes on
RacePass(c, msg, ctx, cfg, key) ==
    /\ procs' = procs \cup {Racer(c, msg, ctx, cfg, key)}
    /\ dedupLoaded' = (dedupLoaded \/ key # <<>>)
    /\ dedupCache' = IF key # <<>> THEN loadDedupLocked ELSE dedupCache
    /\ UNCHANGED <<sendLog, dedupFile, calls>>

\* what sendEmail reports when it found the key in the dedup store
duplicateReport(key) ==
    [noSend EXCEPT !.result = "skipped-duplicate", !.key = key, !.touched = TRUE,
                   !.err.kind = "deduplicated"]

RaceKeyed(c, msg, ctx, cfg, key) ==
    IF dedupKeyExists(key)
    THEN RaceReturn(c, msg, ctx, duplicateReport(key), Len(calls)) /\ UNCHANGED procs
    ELSE RacePass(c, msg, ctx, cfg, key)

RaceChecked(c, msg, ctx, p) ==
    IF ~p.ok THEN RaceReturn(c, msg, ctx, noSend, Len(calls)) /\ UNCHANGED procs
    ELSE RaceKeyed(c, msg, ctx, p.cfg, dedupKeyFromConfig(p.cfg, ctx))

\* a goroutine calls sendEmail: prepareSendConfig, the dedup key, the dedup check
RaceEnter ==
    /\ Len(calls) + Cardinality(procs) < MaxRaceCalls
    /\ \E c \in IdleRacers : \E inp \in RaceInputs :
          RaceChecked(c, inp[1], inp[2], prepareSendConfig(inp[1], now))
    /\ UNCHANGED <<now, resolveVars, storeVars, jobResults, sched>>

\* a goroutine goes through the provider loop and returns
RaceFinish ==
    /\ \E w \in procs : \E okAt \in SendOutcomes(w.msg) :
          /\ RaceReturn(w.cid, w.msg, w.ctx, sendUnchecked(w.cfg, w.key, w.ctx, okAt), w.callsBefore)
          /\ procs' = procs \ {w}
    /\ UNCHANGED <<now, resolveVars, storeVars, jobResults, sched>>

NextRace == RaceEnter \/ RaceFinish

SpecRace == InitRace /\ [][NextRace]_vars

\* the call invoked the external sender and the sender accepted the message
SentOk(k) == calls[k].result = "ok" /\ calls[k].sent > 0

\* C37 as stated: of two Send calls for the same message (same dedup key, schedule mode
\* once), run concurrently or not, at most one invokes the external sender successfully
C37_Original ==
    \A i \in DOMAIN calls : \A j \in DOMAIN calls :
        (i # j /\ calls[i].key # <<>> /\ calls[i].key = calls[j].key)
            => ~(SentOk(i) /\ SentOk(j))

\* two calls for one key that were both past the dedup check before either had returned,
\* and both delivered
BothDelivered ==
    \E i \in DOMAIN calls : \E j \in DOMAIN calls :
        /\ i < j /\ i \in calls[j].others
        /\ calls[i].msg = msgOnce /\ calls[j].msg = msgOnce
        /\ calls[i].key # <<>> /\ calls[i].key = calls[j].key
        /\ SentOk(i) /\ SentOk(j)
        /\ Cardinality({k \in DOMAIN sendLog : sendLog[k].Success}) >= 2

-----------------------------------------------------------------------------
(* Start after Stop, checked under SpecLifecycle *)

\* close(s.stop) has not been called on the closed channel
NoDoubleClose == sched.ctl # "panic"

\* the ticker loops at their select in a set of goroutines
LoopsOf(ps) == {l \in ps : l.pc = "select"}

\* a ticker loop returns only after a Stop that found the scheduler running
LoopEndsOnStop ==
    (LoopsOf(procs') # LoopsOf(procs) /\ LoopsOf(procs') \subseteq LoopsOf(procs) /\ sched'.ctl # "panic")
        => ~sched.running

\* C38 as stated: in any sequence of Start() and Stop() calls the stop channel is closed
\* at most once, and the ticker loop of a Start() issued after a Stop() keeps polling
\* until the next Stop()
C38_Original == []NoDoubleClose /\ [][LoopEndsOnStop]_vars

\* Start, Stop, Start: the second loop has returned on the closed channel without a tick
\* of its own, and the scheduler still counts as running; the Stop that follows panics
SecondLoopGone ==
    /\ sched.loops = 2 /\ sched.running /\ sched.closed
    /\ LoopsOf(procs) = {}
    /\ \A k \in DOMAIN calls : calls[k].loop # Digits(2)

SecondStopPanics == sched.last = "stop-panic" /\ sched.loops = 2

-----------------------------------------------------------------------------
(* SpecChain: the worker process on a chain of two steps, both due, the second one
   requiring the success of the first; the sender may fail and the ticker keeps firing *)

InitChain ==
    /\ now = Epoch
    /\ sendLog = <<>>
    /\ ResolveIdle
    /\ DedupIdle
    /\ calls = <<>>
    /\ SchedStarted
    /\ \E base \in {captureRawContent(msgRepeat)} :
          \E r \in ScheduleGenericWorkflow(<<>>, 0, base, defChain, Epoch) :
              jobsFile = r.store /\ idSeq = r.n

\* a goroutine builds its context and checks its dependency: it returns and leaves the
\* job (the parent has no result yet), goes on to send, or handles the dependency failure
chainOutcome(w, ctx, d) ==
    /\ procs' = IF d = "wait" THEN procs \ {w}
                ELSE IF d = "send" THEN (procs \ {w}) \cup {[w EXCEPT !.pc = "send"]}
                ELSE (procs \ {w}) \cup {[w EXCEPT !.pc = "record", !.status = dependencyStatus(ctx),
                                                   !.hdf = TRUE]}
    /\ sched' = wgDone(d = "wait")

ChainCheck ==
    /\ \E w \in procs :
          /\ w.pc = "check"
          /\ chainOutcome(w, buildSendContext(w.job),
                          dependencyCheck(buildSendContext(w.job),
                                          getJobResult(buildSendContext(w.job).PrevJobID)))
    /\ UNCHANGED <<now, sendLog, resolveVars, dedupVars, calls, storeVars, jobResults>>

NextChain ==
    RetryTick \/ ChainCheck \/ RetrySend \/ WorkerRecord \/ WorkerLoad \/ WorkerPersist

\* time.Ticker fires again and again and the Go scheduler runs every goroutine that can
\* run
SpecChain ==
    /\ InitChain
    /\ [][NextChain]_vars
    /\ WF_vars(RetryTick)
    /\ WF_vars(ChainCheck) /\ FairSend /\ WF_vars(WorkerRecord)
    /\ WF_vars(WorkerLoad) /\ WF_vars(WorkerPersist)

\* the parent of the chain and its child
ChainParent == randomBoundary(strJob, 1)
ChainChild  == randomBoundary(strJob, 2)

\* the recorded result of the parent is success
ParentSucceeded ==
    ChainParent \in DOMAIN jobResults /\ jobResults[ChainParent] = JobResultSuccess

\* a goroutine of the child has called sendEmail
ChildDispatched == \E k \in DOMAIN calls : calls[k].job = ChainChild

\* C39 as stated: once the parent's result is success, be it after failed executions that
\* were retried on later ticks, the due child that requires it is eventually dispatched
C39_Original == ParentSucceeded ~> ChildDispatched

\* the parent failed, was sent again and succeeded, and the child is gone: blocked on
\* the failure, deleted, and never sent
ChildLostToRetry ==
    /\ ParentSucceeded
    /\ \E k \in DOMAIN calls : calls[k].job = ChainParent /\ calls[k].result = "failure"
    /\ ChainChild \in DOMAIN jobResults /\ jobResults[ChainChild] = JobResultBlocked
    /\ ~ChildDispatched
    /\ jobsFile = <<>> /\ procs = {}

-----------------------------------------------------------------------------
(* the cascade of a terminated step, checked under SpecDispatch *)

\* the job requires a predecessor whose recorded result is blocked or skipped
ParentTerminated(job) ==
    /\ RequiresParent(job)
    /\ job.Meta[kPrev].v \in DOMAIN jobResults
    /\ jobResults[job.Meta[kPrev].v] \in {JobResultBlocked, JobResultSkipped}

\* this step is the sendEmail call of goroutine w
SendStepOf(w) == w \in procs /\ w.pc = "send" /\ w \notin procs'

\* this step is the dependency check of goroutine w
CheckStepOf(w) == w \in procs /\ w.pc = "check" /\ w \notin procs'

\* no goroutine calls sendEmail for a job whose predecessor is blocked or skipped, and a
\* goroutine that checks such a job goes on to record blocked, or skipped when the job's
\* skip_ahead is true, and to delete the job
CascadeStep ==
    \A w \in procs :
        /\ (SendStepOf(w) => ~ParentTerminated(w.job))
        /\ (CheckStepOf(w) /\ ParentTerminated(w.job)) =>
              \E v \in procs' :
                  /\ v.wid = w.wid /\ v.pc = "record" /\ v.op = "Delete"
                  /\ v.status = IF buildSendContext(w.job).SkipAhead THEN JobResultSkipped
                                ELSE JobResultBlocked

\* C40 as stated: once a step's recorded result is blocked or skipped, no step that
\* depends on it through require_last_success is dispatched; each such step terminates as
\* blocked (skipped when its skip_ahead is true) and is deleted without a send attempt
C40_Original == [][CascadeStep]_vars

\* the child was sent although its parent's recorded result is skipped
ChildSentAfterSkip ==
    \E i \in DOMAIN sendLog : \E id \in DOMAIN jobResults :
        /\ jobResults[id] = JobResultSkipped
        /\ \E j \in DOMAIN sendLog : sendLog[j].JobID = id /\ sendLog[j].Success
        /\ sendLog[i].JobID # id /\ sendLog[i].Success
        /\ sendLog[i].JobID \in DOMAIN jobResults /\ jobResults[sendLog[i].JobID] = JobResultSuccess

=============================================================================
